---- MODULE Spec2Model ----
(***************************************************************************)
(* A model of the style-resolution core of ysf-parse-css-to-stylesheet:    *)
(*   - the style value model and its two lowerings (style_propetries/),    *)
(*   - the Injector, AstMutVisitor (visitor.rs),                           *)
(*   - the Source Tree Builder, JSXVisitor / JSXFragmentVisitor /          *)
(*     AstVisitor (visitor.rs).                                            *)
(* Text is modelled as a sequence of one-character strings, so that the    *)
(* splitting, joining and rewriting the code does on text is computed.     *)
(***************************************************************************)
EXTENDS Integers, Sequences, FiniteSets, TLC

VARIABLES
  \* ---- lowering of one declaration (style_propetries) ----
  lw_pc,        \* "idle" | "start" | "built" | "lowered"
  lw_variant,   \* the StyleValueType variant chosen for the declaration
  lw_prop,      \* the parsed property handed to the variant's From
  lw_platform,  \* the target platform of the lowering call
  lw_value,     \* the constructed variant's value field
  lw_out,       \* the PropertyTuple the lowering returned
  lw_keyframes, \* the Keyframe Table handed to the constructor, if any
  \* ---- the Injector (AstMutVisitor) ----
  in_pc,        \* "idle" | "run" | "done"
  in_pass,      \* number of the running Injector pass
  in_parent,    \* the syntax tree's shape: element -> parent element (0: none)
  in_attrs,     \* element -> its opening tag's attribute list (mutated in place)
  in_attrs0,    \* the attribute lists before the first pass
  in_attrs1,    \* the attribute lists after the first pass
  in_todo,      \* the elements the traversal has still to visit, next first
  in_visited,   \* the elements the running pass has visited
  style_record, \* NodeId -> declaration block
  \* ---- shared by the Source Tree Builder and the Injector ----
  jsx_record,   \* JSXRecord: SpanKey -> NodeId
  \* ---- the Source Tree Builder (AstVisitor, JSXVisitor, JSXFragmentVisitor) ----
  b_pc,         \* "idle" | "run" | "done" | "overflow"
  b_unit,       \* the source unit: its declarations and their markup
  b_trees,      \* the trees: the Source Tree first, then the JSXFragmentVisitors' own
  b_stack,      \* the visitors' calls in progress, the running one last
  b_origin      \* SpanKey -> the tree whose node the JSXRecord entry names

lowerVars  == <<lw_pc, lw_variant, lw_prop, lw_platform, lw_value, lw_out,
               lw_keyframes>>
injectVars == <<in_pc, in_pass, in_parent, in_attrs, in_attrs0, in_attrs1,
                in_todo, in_visited, style_record>>
buildVars  == <<b_pc, b_unit, b_trees, b_stack, b_origin>>
vars == <<lowerVars, injectVars, jsx_record, buildVars>>

-----------------------------------------------------------------------------
(* Generic helpers *)

Range(f) == {f[x] : x \in DOMAIN f}

SeqsUpTo(S, n) == UNION {[1..k -> S] : k \in 0..n}

RECURSIVE Concat(_)
\* The concatenation of a sequence of sequences.
Concat(ss) == IF ss = <<>> THEN <<>> ELSE Head(ss) \o Concat(Tail(ss))

RECURSIVE JoinWith(_, _)
\* The pieces ss joined with the separator sequence sep between them.
JoinWith(ss, sep) ==
  IF ss = <<>> THEN <<>>
  ELSE IF Len(ss) = 1 THEN Head(ss)
  ELSE Head(ss) \o sep \o JoinWith(Tail(ss), sep)

\* A value not set yet.
NoValue == [kind |-> "NoValue"]

\* Option<T>: None is the empty sequence, Some(x) the sequence <<x>>.
None    == <<>>
Some(x) == <<x>>

-----------------------------------------------------------------------------
(* Text: sequences of one-character strings *)

Digits == <<"0", "1", "2", "3", "4", "5", "6", "7", "8", "9">>

IsDigit(c) == \E i \in 1..10 : Digits[i] = c

DigitValue(c) == (CHOOSE i \in 1..10 : Digits[i] = c) - 1

RECURSIVE ParseNat(_)
\* str::parse on a run of decimal digits.
ParseNat(ds) ==
  IF ds = <<>> THEN 0
  ELSE 10 * ParseNat(SubSeq(ds, 1, Len(ds) - 1)) + DigitValue(ds[Len(ds)])

RECURSIVE FormatNat(_)
\* Display formatting of a natural number: no leading zeros.
FormatNat(n) ==
  IF n < 10 THEN <<Digits[n + 1]>>
  ELSE FormatNat(n \div 10) \o <<Digits[(n % 10) + 1]>>

RECURSIVE StripZeros(_)
\* A run of digits without its leading zeros; one digit is always left.
StripZeros(ds) ==
  IF Len(ds) > 1 /\ ds[1] = "0" THEN StripZeros(Tail(ds)) ELSE ds

RECURSIVE DigitsLeq(_, _)
\* Two runs of digits of one length: the first is no greater than the second.
DigitsLeq(a, b) ==
  \/ a = <<>>
  \/ DigitValue(a[1]) < DigitValue(b[1])
  \/ (a[1] = b[1] /\ DigitsLeq(Tail(a), Tail(b)))

\* i32::MAX, in digits.
I32Max == <<"2", "1", "4", "7", "4", "8", "3", "6", "4", "7">>

\* str::parse::<i32> on a run of digits is Ok: the number is at most i32::MAX.
FitsI32(ds) ==
  LET d == StripZeros(ds)
  IN  Len(d) < Len(I32Max) \/ (Len(d) = Len(I32Max) /\ DigitsLeq(d, I32Max))

T_none  == <<"n", "o", "n", "e">>
T_flex  == <<"f", "l", "e", "x">>
T_block == <<"b", "l", "o", "c", "k">>
T_auto  == <<"a", "u", "t", "o">>

-----------------------------------------------------------------------------
(* Style value model and lowering: style_propetries/ *)

Platform == {"Harmony", "ReactNative"}

\* lightningcss::properties::display
DisplayKeyword ==
  {"None", "Contents", "TableRowGroup", "TableHeaderGroup", "TableFooterGroup",
   "TableRow", "TableCell", "TableColumnGroup", "TableColumn", "TableCaption",
   "RubyBase", "RubyText", "RubyBaseContainer", "RubyTextContainer"}
DisplayOutside == {"Block", "Inline", "RunIn"}
DisplayInside  == {"Flow", "FlowRoot", "Table", "Flex", "Box", "Grid", "Ruby"}

\* A parsed property: its tag and the fields of its value.
\*   Display:  k = "Keyword" (a: keyword) | "Pair" (a: outside, b: inside)
\*   lengths:  k = "Auto" | "Dimension" (a: unit, n) | "Percentage" (n: value*100)
\*             | "Calc" (text: the CSS text) | another keyword of the value type
Prop(tag, k, a, b, n, text) ==
  [tag |-> tag, k |-> k, a |-> a, b |-> b, n |-> n, text |-> text]

\* A variant's value field (the EnumValue of display.rs and of the macros).
Val(k, a, n, text) == [k |-> k, a |-> a, n |-> n, text |-> text]

\* Target expressions (swc Expr).
ExprLitStr(text) == [kind |-> "Str", text |-> text, a |-> "", n |-> 0, platform |-> ""]
ExprInvalid      == [kind |-> "Invalid", text |-> <<>>, a |-> "", n |-> 0, platform |-> ""]
ExprTpl(text)    == [kind |-> "Tpl", text |-> text, a |-> "", n |-> 0, platform |-> ""]
\* No expression: the lowering panicked.
ExprPanic        == [kind |-> "Panic", text |-> <<>>, a |-> "", n |-> 0, platform |-> ""]

\* PropertyTuple::One
One(id, expr) == [tuple |-> "One", id |-> id, expr |-> expr]

\* Display_from with the two tests of a pair in the other order.
Display_from_OutsideFirst(prop) ==
  IF prop.tag = "Display"
  THEN IF prop.k = "Keyword"
       THEN (IF prop.a = "None" THEN Val("None", "", 0, <<>>)
             ELSE Val("Invalid", "", 0, <<>>))
       ELSE IF prop.a = "Block" THEN Val("Block", "", 0, <<>>)
       ELSE IF prop.b = "Flex" THEN Val("Flex", "", 0, <<>>)
       ELSE Val("Invalid", "", 0, <<>>)
  ELSE Val("Invalid", "", 0, <<>>)

\* impl From<(String, &Property)> for Display
Display_from(prop) ==
  IF prop.tag = "Display"
  THEN IF prop.k = "Keyword"
       THEN (IF prop.a = "None" THEN Val("None", "", 0, <<>>)
             ELSE Val("Invalid", "", 0, <<>>))
       ELSE IF prop.b = "Flex" THEN Val("Flex", "", 0, <<>>)
       ELSE IF prop.a = "Block" THEN Val("Block", "", 0, <<>>)
       ELSE Val("Invalid", "", 0, <<>>)
  ELSE Val("Invalid", "", 0, <<>>)

\* impl ToExpr for Display: to_expr (Harmony)
Display_to_expr(id, value) ==
  One(id, CASE value.k = "None"  -> ExprLitStr(T_none)
            [] value.k = "Flex"  -> ExprLitStr(T_flex)
            [] value.k = "Block" -> ExprLitStr(T_block)
            [] OTHER             -> ExprInvalid)

\* impl ToExpr for Display: to_rn_expr (React-Native)
Display_to_rn_expr(id, value) ==
  One(id, CASE value.k = "None"  -> ExprLitStr(T_none)
            [] value.k = "Flex"  -> ExprLitStr(T_flex)
            [] value.k = "Block" -> ExprLitStr(T_block)
            [] OTHER             -> ExprInvalid)

\* The conversion helpers' identifiers (crate::constants), one symbol each.
CONVERT_STYLE_PX_FN    == <<"CONVERT_STYLE_PX_FN">>
RN_CONVERT_STYLE_PX_FN == <<"RN_CONVERT_STYLE_PX_FN">>
RN_CONVERT_STYLE_VU_FN == <<"RN_CONVERT_STYLE_VU_FN">>

IsUnitAt(s, i) ==
  /\ i + 1 <= Len(s)
  /\ SubSeq(s, i, i + 1) \in {<<"p", "x">>, <<"v", "w">>, <<"v", "h">>}

RECURSIVE DigitRunEnd(_, _)
\* The last index of the run of digits that holds index i.
DigitRunEnd(s, i) ==
  IF i + 1 <= Len(s) /\ IsDigit(s[i + 1]) THEN DigitRunEnd(s, i + 1) ELSE i

\* The closure of replace_all in generate_expr_lit_calc: the text put in the
\* place of one match, digits followed by a unit.
CalcReplacement(digits, unit, platform) ==
  LET fn == IF platform = "Harmony" THEN CONVERT_STYLE_PX_FN
            ELSE IF unit = <<"p", "x">> THEN RN_CONVERT_STYLE_PX_FN
            ELSE RN_CONVERT_STYLE_VU_FN
  IN  <<"$", "{">> \o fn \o <<"(">> \o FormatNat(ParseNat(digits))
        \o <<",", " ", "'">> \o unit \o <<"'", ")", "}">>

RECURSIVE CalcReplaceAll(_, _, _)
\* Regex::replace_all with the pattern (\d+(?:px|vw|vh)), from index i on:
\* leftmost matches, the digits taken greedily, no overlap.
CalcReplaceAll(s, i, platform) ==
  IF i > Len(s) THEN <<>>
  ELSE IF IsDigit(s[i]) /\ IsUnitAt(s, DigitRunEnd(s, i) + 1)
  THEN LET e == DigitRunEnd(s, i)
       IN  CalcReplacement(SubSeq(s, i, e), SubSeq(s, e + 1, e + 2), platform)
             \o CalcReplaceAll(s, e + 3, platform)
  ELSE <<s[i]>> \o CalcReplaceAll(s, i + 1, platform)

RECURSIVE CalcPanics(_, _)
\* parse().unwrap() in the closure panics at one of the matches from index i on.
CalcPanics(s, i) ==
  IF i > Len(s) THEN FALSE
  ELSE IF IsDigit(s[i]) /\ IsUnitAt(s, DigitRunEnd(s, i) + 1)
  THEN \/ ~FitsI32(SubSeq(s, i, DigitRunEnd(s, i)))
       \/ CalcPanics(s, DigitRunEnd(s, i) + 3)
  ELSE CalcPanics(s, i + 1)

\* macro generate_expr_lit_calc
generate_expr_lit_calc(text, platform) ==
  IF CalcPanics(text, 1) THEN ExprPanic
  ELSE ExprTpl(CalcReplaceAll(text, 1, platform))

\* unit::generate_expr_by_length_value: a numeric or dimension expression.
generate_expr_by_length_value(unit, n, platform) ==
  [kind |-> "Length", text |-> <<>>, a |-> unit, n |-> n, platform |-> platform]

\* (value * 100.0).to_string() + "%"; n is the percentage times 100.
PercentageText(n) == FormatNat(n) \o <<"%">>

\* The value a calc(), dimension or percentage gets in a length or size variant
\* (generate_dimension_percentage, and the same match in generate_size_property).
DimensionPercentage(prop) ==
  CASE prop.k = "Dimension"  -> Val("LengthValue", prop.a, prop.n, <<>>)
    [] prop.k = "Percentage" -> Val("Percentage", "", prop.n, <<>>)
    [] prop.k = "Calc"       -> Val("String", "", 0, prop.text)

\* The tags the length and the size variant are generated for.
LengthValueTags == {"MarginTop", "Left"}
SizeTags        == {"Width", "Height"}

\* generate_length_value_property: From
LengthValueProperty_from(prop) ==
  IF prop.tag \in LengthValueTags
  THEN (IF prop.k = "Auto" THEN Val("Auto", "", 0, <<>>)
        ELSE DimensionPercentage(prop))
  ELSE Val("String", "", 0, T_auto)

\* generate_length_value_property: to_expr (Harmony)
LengthValueProperty_to_expr(id, value) ==
  One(id, CASE value.k = "String"      -> generate_expr_lit_calc(value.text, "Harmony")
            [] value.k = "LengthValue" ->
                 generate_expr_by_length_value(value.a, value.n, "Harmony")
            [] value.k = "Percentage"  -> ExprLitStr(PercentageText(value.n))
            [] value.k = "Auto"        -> ExprInvalid)

\* generate_length_value_property: to_rn_expr (React-Native)
LengthValueProperty_to_rn_expr(id, value) ==
  One(id, CASE value.k = "String"      -> generate_expr_lit_calc(value.text, "ReactNative")
            [] value.k = "LengthValue" ->
                 generate_expr_by_length_value(value.a, value.n, "ReactNative")
            [] value.k = "Percentage"  -> ExprLitStr(PercentageText(value.n))
            [] value.k = "Auto"        -> ExprLitStr(T_auto))

\* generate_size_property: From
SizeProperty_from(prop) ==
  IF prop.tag \in SizeTags
  THEN (IF prop.k \in {"Dimension", "Percentage", "Calc"}
        THEN DimensionPercentage(prop)
        ELSE Val("Auto", "", 0, <<>>))
  ELSE Val("String", "", 0, T_auto)

\* generate_size_property: to_expr (Harmony)
SizeProperty_to_expr(id, value) ==
  One(id, CASE value.k = "String"      -> generate_expr_lit_calc(value.text, "Harmony")
            [] value.k = "LengthValue" ->
                 generate_expr_by_length_value(value.a, value.n, "Harmony")
            [] value.k = "Percentage"  -> ExprLitStr(PercentageText(value.n))
            [] value.k = "Auto"        -> ExprLitStr(T_auto))

\* generate_size_property: to_rn_expr (React-Native)
SizeProperty_to_rn_expr(id, value) ==
  One(id, CASE value.k = "String"      -> generate_expr_lit_calc(value.text, "ReactNative")
            [] value.k = "LengthValue" ->
                 generate_expr_by_length_value(value.a, value.n, "ReactNative")
            [] value.k = "Percentage"  -> ExprLitStr(PercentageText(value.n))
            [] value.k = "Auto"        -> ExprLitStr(T_auto))

\* Target expression: a numeric literal (macro generate_expr_lit_num).
ExprLitNum(n) == [kind |-> "Num", n |-> n]

\* unit::convert_color_keywords_to_hex on the color's CSS text: a keyword
\* becomes its hex form, any other text is kept.
convert_color_keywords_to_hex(color) ==
  CASE color = "red"   -> "#ff0000"
    [] color = "black" -> "#000000"
    [] OTHER           -> color

\* utils::fix_rgba: the rgba fix-up of the Harmony color lowering.
fix_rgba(color) ==
  CASE color = "rgba(0, 0, 0, .5)" -> "rgba(0, 0, 0, 0.5)"
    [] OTHER -> color

ColorTags  == {"Color", "BackgroundColor"}
NumberTags == {"FlexGrow", "Opacity"}

\* macro generate_color_property: From, to_expr, to_rn_expr. The property's
\* value_to_css_string is its field a.
ColorProperty_from(prop) ==
  IF prop.tag \in ColorTags THEN convert_color_keywords_to_hex(prop.a) ELSE ""

ColorProperty_to_expr(id, value) == One(id, ExprLitStr(<<fix_rgba(value)>>))

ColorProperty_to_rn_expr(id, value) == One(id, ExprLitStr(<<value>>))

\* macro generate_number_property: From, to_expr, to_rn_expr.
NumberProperty_from_DefaultOne(prop) ==
  IF prop.tag \in NumberTags THEN prop.n ELSE 1

NumberProperty_from(prop) ==
  IF prop.tag \in NumberTags THEN prop.n ELSE 0

NumberProperty_to_expr(id, value) == One(id, ExprLitNum(value))

NumberProperty_to_rn_expr(id, value) == One(id, ExprLitNum(value))

Variants ==
  {"Display", "LengthValueProperty", "SizeProperty", "ColorProperty", "NumberProperty"}

\* StyleValueType::from: the variant's constructor.
StyleValueType_from(variant, prop) ==
  CASE variant = "Display"             -> Display_from(prop)
    [] variant = "LengthValueProperty" -> LengthValueProperty_from(prop)
    [] variant = "SizeProperty"        -> SizeProperty_from(prop)
    [] variant = "ColorProperty"       -> ColorProperty_from(prop)
    [] variant = "NumberProperty"      -> NumberProperty_from(prop)

\* The identifier a variant is constructed with: the target field's name.
IdOf(variant) ==
  CASE variant = "Display"             -> "display"
    [] variant = "LengthValueProperty" -> "marginTop"
    [] variant = "SizeProperty"        -> "width"
    [] variant = "ColorProperty"       -> "color"
    [] variant = "NumberProperty"      -> "flexGrow"

\* impl ToStyleValue for StyleValueType, generate_expr_based_on_platform:
\* React-Native takes to_rn_expr, every other platform to_expr.
StyleValueType_to_expr(variant, id, value, platform) ==
  CASE variant = "Display" ->
         (IF platform = "ReactNative" THEN Display_to_rn_expr(id, value)
          ELSE Display_to_expr(id, value))
    [] variant = "LengthValueProperty" ->
         (IF platform = "ReactNative" THEN LengthValueProperty_to_rn_expr(id, value)
          ELSE LengthValueProperty_to_expr(id, value))
    [] variant = "SizeProperty" ->
         (IF platform = "ReactNative" THEN SizeProperty_to_rn_expr(id, value)
          ELSE SizeProperty_to_expr(id, value))
    [] variant = "ColorProperty" ->
         (IF platform = "ReactNative" THEN ColorProperty_to_rn_expr(id, value)
          ELSE ColorProperty_to_expr(id, value))
    [] variant = "NumberProperty" ->
         (IF platform = "ReactNative" THEN NumberProperty_to_rn_expr(id, value)
          ELSE NumberProperty_to_expr(id, value))

-----------------------------------------------------------------------------
(* Box shadow: style_propetries/box_shadow.rs *)

\* More target expressions: a boolean literal, an object literal with its
\* key-value properties in order.
ExprLitBool(b)    == [kind |-> "Bool", b |-> b]
ExprObject(props) == [kind |-> "Object", props |-> props]
KeyValue(key, value) == [key |-> key, value |-> value]

\* PropertyTuple::Array: the (name, expression) pairs in order.
Array(items) == [tuple |-> "Array", items |-> items]
\* No PropertyTuple: the lowering panicked.
PanicTuple == [tuple |-> "Panic"]

\* lightningcss Length: Value (unit a, number n) or Calc (its CSS text).
LengthOf(k, a, n, text) == [k |-> k, a |-> a, n |-> n, text |-> text]

\* macro generate_expr_by_length
generate_expr_by_length(len, platform) ==
  IF len.k = "Value" THEN generate_expr_by_length_value(len.a, len.n, platform)
  ELSE generate_expr_lit_calc(len.text, platform)

\* macro generate_string_by_css_color
generate_string_by_css_color(color) ==
  ExprLitStr(<<convert_color_keywords_to_hex(color)>>)

\* One shadow of a box-shadow value (lightningcss BoxShadow).
Shadow(x, y, blur, spread, color, inset) ==
  [x_offset |-> x, y_offset |-> y, blur |-> blur, spread |-> spread,
   color |-> color, inset |-> inset]

\* Property::BoxShadow(value, _): the list of shadows.
BoxShadowProp(shadows) == [tag |-> "BoxShadow", k |-> "List", shadows |-> shadows]

\* BoxShadow::new
BoxShadow_new(id) ==
  [id |-> id, offset_x |-> None, offset_y |-> None, blur_radius |-> None,
   color |-> None, inset |-> None]

\* BoxShadow_fold that takes the first shadow only.
BoxShadow_fold_First(acc, shadows) ==
  IF shadows = <<>> THEN acc
  ELSE LET val == Head(shadows)
       IN  [acc EXCEPT !.offset_x = Some(val.x_offset),
                       !.offset_y = Some(val.y_offset),
                       !.blur_radius = Some(val.blur),
                       !.color = Some(val.color),
                       !.inset = Some(val.inset)]

RECURSIVE BoxShadow_fold(_, _)
\* value.into_iter().fold(box_shadow, ..): the five setters, shadow by shadow.
BoxShadow_fold(acc, shadows) ==
  IF shadows = <<>> THEN acc
  ELSE LET val == Head(shadows)
       IN  BoxShadow_fold(
             [acc EXCEPT !.offset_x = Some(val.x_offset),
                         !.offset_y = Some(val.y_offset),
                         !.blur_radius = Some(val.blur),
                         !.color = Some(val.color),
                         !.inset = Some(val.inset)],
             Tail(shadows))

\* impl From<(String, &Property)> for BoxShadow
BoxShadow_from(id, prop) ==
  IF prop.tag = "BoxShadow" THEN BoxShadow_fold(BoxShadow_new(id), prop.shadows)
  ELSE BoxShadow_new(id)

\* BoxShadow_to_expr without the inset-derived field.
BoxShadow_to_expr_NoFill(value) ==
  LET props ==
        (IF value.offset_x # None
         THEN <<KeyValue("offsetX", generate_expr_by_length(value.offset_x[1], "Harmony"))>>
         ELSE <<>>)
        \o (IF value.offset_y # None
            THEN <<KeyValue("offsetY", generate_expr_by_length(value.offset_y[1], "Harmony"))>>
            ELSE <<>>)
        \o (IF value.blur_radius # None
            THEN <<KeyValue("radius", generate_expr_by_length(value.blur_radius[1], "Harmony"))>>
            ELSE <<>>)
        \o (IF value.color # None
            THEN <<KeyValue("color", generate_string_by_css_color(value.color[1]))>>
            ELSE <<>>)
  IN  One("boxShadow", ExprObject(props))

\* impl ToExpr for BoxShadow: to_expr (Harmony)
BoxShadow_to_expr(value) ==
  LET props ==
        (IF value.offset_x # None
         THEN <<KeyValue("offsetX", generate_expr_by_length(value.offset_x[1], "Harmony"))>>
         ELSE <<>>)
        \o (IF value.offset_y # None
            THEN <<KeyValue("offsetY", generate_expr_by_length(value.offset_y[1], "Harmony"))>>
            ELSE <<>>)
        \o (IF value.blur_radius # None
            THEN <<KeyValue("radius", generate_expr_by_length(value.blur_radius[1], "Harmony"))>>
            ELSE <<>>)
        \o (IF value.color # None
            THEN <<KeyValue("color", generate_string_by_css_color(value.color[1]))>>
            ELSE <<>>)
        \o (IF value.inset # None
            THEN <<KeyValue("fill", ExprLitBool(value.inset[1]))>>
            ELSE <<>>)
  IN  One("boxShadow", ExprObject(props))

\* impl ToExpr for BoxShadow: to_rn_expr (React-Native); each unwrap() of an
\* absent field panics.
BoxShadow_to_rn_expr(value) ==
  IF value.offset_x = None \/ value.offset_y = None
     \/ value.color = None \/ value.blur_radius = None
  THEN PanicTuple
  ELSE Array(<<
         KeyValue("BoxShadowOffset", ExprObject(<<
           KeyValue("width", generate_expr_by_length(value.offset_x[1], "ReactNative")),
           KeyValue("height", generate_expr_by_length(value.offset_y[1], "ReactNative"))>>)),
         KeyValue("BoxShadowColor", generate_string_by_css_color(value.color[1])),
         KeyValue("BoxShadowRadius",
                  generate_expr_by_length(value.blur_radius[1], "ReactNative"))>>)

-----------------------------------------------------------------------------
(* Animation: style_propetries/animation.rs *)

\* Target expression: an array literal of expressions.
ExprArray(elems) == [kind |-> "Array", elems |-> elems]

\* lightningcss Time: Seconds(n) or Milliseconds(n).
Time(unit, n) == [unit |-> unit, n |-> n]

\* AnimationIterationCount: Number(n) or Infinite.
IterationCount(k, n) == [k |-> k, n |-> n]

\* AnimationName: Ident(text) or None.
AnimationName(k, text) == [k |-> k, text |-> text]

\* One animation of the shorthand (lightningcss Animation).
AnimationItem(name, duration, delay, iteration_count, timing_function) ==
  [name |-> name, duration |-> duration, delay |-> delay,
   iteration_count |-> iteration_count, timing_function |-> timing_function]

\* Property::Animation, AnimationDelay, AnimationDuration,
\* AnimationIterationCount, AnimationName, AnimationTimingFunction: each
\* carries a list.
AnimationProp(tag, list) == [tag |-> tag, k |-> "List", list |-> list]

\* KeyFrameItem{percentage, declarations}; percentage in hundredths.
KeyFrameItem(percentage, declarations) ==
  [percentage |-> percentage, declarations |-> declarations]

\* to_css_string of an animation name and of a list of names.
NameCss(name) == IF name.k = "None" THEN T_none ELSE name.text

NameListCss(names) ==
  JoinWith([i \in DOMAIN names |-> NameCss(names[i])], <<",", " ">>)

\* to_css_string of an easing function.
EasingCss(f) ==
  CASE f = "Ease"   -> <<"e", "a", "s", "e">>
    [] f = "Linear" -> <<"l", "i", "n", "e", "a", "r">>

\* The match on Time: seconds as they are, milliseconds times 60.
TimeValue_AllTimes60(t) == t.n * 60

TimeValue_MillisecondsKept(t) == IF t.unit = "Seconds" THEN t.n ELSE t.n

TimeValue(t) == IF t.unit = "Seconds" THEN t.n ELSE t.n * 60

\* The match on AnimationIterationCount: Infinite is -1.
IterationValue(c) == IF c.k = "Number" THEN c.n ELSE -1

RECURSIVE Animation_for_each(_, _)
\* animation_list.into_iter().for_each(..): every animation sets the five fields.
Animation_for_each(acc, list) ==
  IF list = <<>> THEN acc
  ELSE LET animation == Head(list)
       IN  Animation_for_each(
             [acc EXCEPT !.animation_name = Some(NameCss(animation.name)),
                         !.animation_duration = Some(TimeValue(animation.duration)),
                         !.animation_delay = Some(TimeValue(animation.delay)),
                         !.animation_iteration =
                            Some(IterationValue(animation.iteration_count)),
                         !.animation_timeing_function =
                            Some(animation.timing_function)],
             Tail(list))

\* impl From<(String, &Property, Option<keyframes>)> for Animation; the lists
\* of the longhand properties hold at least one value.
Animation_from(id, prop, keyframes) ==
  LET blank == [id |-> id, keyframes |-> keyframes, animation_name |-> None,
                animation_duration |-> None, animation_delay |-> None,
                animation_iteration |-> None, animation_timeing_function |-> None]
  IN  CASE prop.tag = "Animation" -> Animation_for_each(blank, prop.list)
        [] prop.tag = "AnimationDelay" ->
             [blank EXCEPT !.animation_delay = Some(TimeValue(prop.list[1]))]
        [] prop.tag = "AnimationDuration" ->
             [blank EXCEPT !.animation_duration = Some(TimeValue(prop.list[1]))]
        [] prop.tag = "AnimationIterationCount" ->
             [blank EXCEPT !.animation_iteration = Some(IterationValue(prop.list[1]))]
        [] prop.tag = "AnimationName" ->
             [blank EXCEPT !.animation_name = Some(NameListCss(prop.list))]
        [] prop.tag = "AnimationTimingFunction" ->
             [blank EXCEPT !.animation_timeing_function = Some(prop.list[1])]
        [] OTHER -> blank

\* visitor::parse_style_values(declarations, Platform::Harmony): the
\* properties of the lowered declarations, in order.
parse_style_values(declarations, platform) ==
  [i \in DOMAIN declarations |->
     KeyValue(declarations[i].id, ExprLitStr(declarations[i].text))]

\* The animationName entry: one {percentage, event} object per keyframe item.
KeyframeObjects(keyframe_items) ==
  ExprArray([i \in DOMAIN keyframe_items |->
    ExprObject(<<
      KeyValue("percentage", ExprLitNum(keyframe_items[i].percentage)),
      KeyValue("event",
               ExprObject(parse_style_values(keyframe_items[i].declarations,
                                             "Harmony")))>>)])

\* Animation_to_expr with an animationName entry for every name.
Animation_to_expr_AnyName(value) ==
  LET exprs ==
        (IF value.animation_delay # None
         THEN <<KeyValue("animationDelay", ExprLitNum(value.animation_delay[1] * 1000))>>
         ELSE <<>>)
        \o (IF value.animation_iteration # None
            THEN <<KeyValue("animationIterationCount",
                            ExprLitNum(value.animation_iteration[1]))>>
            ELSE <<>>)
        \o (IF value.animation_duration # None
            THEN <<KeyValue("animationDuration",
                            ExprLitNum(value.animation_duration[1] * 1000))>>
            ELSE <<>>)
        \o (IF value.animation_timeing_function # None
            THEN <<KeyValue("animationTimeingFunction",
                            ExprLitStr(EasingCss(value.animation_timeing_function[1])))>>
            ELSE <<>>)
        \o (IF value.animation_name # None
            THEN <<KeyValue("animationName",
                     IF value.keyframes # None
                        /\ value.animation_name[1] \in DOMAIN value.keyframes[1]
                     THEN KeyframeObjects(value.keyframes[1][value.animation_name[1]])
                     ELSE ExprArray(<<>>))>>
            ELSE <<>>)
  IN  Array(exprs)

\* impl ToExpr for Animation: to_expr (Harmony)
Animation_to_expr(value) ==
  LET exprs ==
        (IF value.animation_delay # None
         THEN <<KeyValue("animationDelay", ExprLitNum(value.animation_delay[1] * 1000))>>
         ELSE <<>>)
        \o (IF value.animation_iteration # None
            THEN <<KeyValue("animationIterationCount",
                            ExprLitNum(value.animation_iteration[1]))>>
            ELSE <<>>)
        \o (IF value.animation_duration # None
            THEN <<KeyValue("animationDuration",
                            ExprLitNum(value.animation_duration[1] * 1000))>>
            ELSE <<>>)
        \o (IF value.animation_timeing_function # None
            THEN <<KeyValue("animationTimeingFunction",
                            ExprLitStr(EasingCss(value.animation_timeing_function[1])))>>
            ELSE <<>>)
        \o (IF value.animation_name # None /\ value.keyframes # None
               /\ value.animation_name[1] \in DOMAIN value.keyframes[1]
            THEN <<KeyValue("animationName",
                            KeyframeObjects(value.keyframes[1][value.animation_name[1]]))>>
            ELSE <<>>)
  IN  Array(exprs)

\* impl ToExpr for Animation: to_rn_expr (React-Native)
Animation_to_rn_expr(value) == One(value.id, ExprInvalid)

-----------------------------------------------------------------------------
(* The lowering of one declaration, as a state machine *)

\* The longest calc() text the inputs hold, in tokens.
MaxCalcToks == 3

\* 10px + 5vw
T_sum == <<"1", "0", "p", "x", " ", "+", " ", "5", "v", "w">>
\* 3000000000px
T_big == <<"3", "0", "0", "0", "0", "0", "0", "0", "0", "0", "p", "x">>

CalcTokens ==
  {<<"1">>, <<"0">>, <<".">>, <<"p", "x">>, <<"v", "w">>, <<"v", "h">>,
   <<" ", "+", " ">>, T_sum, T_big}

CalcTexts ==
  {<<"c", "a", "l", "c", "(">> \o Concat(ts) \o <<")">> :
     ts \in SeqsUpTo(CalcTokens, MaxCalcToks)}

DisplayProps ==
  {Prop("Display", "Keyword", kw, "", 0, <<>>) : kw \in DisplayKeyword}
  \cup {Prop("Display", "Pair", p[1], p[2], 0, <<>>) :
          p \in DisplayOutside \X DisplayInside}

LengthProps ==
  UNION {
    {Prop(tag, "Auto", "", "", 0, <<>>), Prop(tag, "MinContent", "", "", 0, <<>>)}
    \cup {Prop(tag, "Dimension", d[1], "", d[2], <<>>) : d \in {"px", "vw"} \X {0, 10}}
    \cup {Prop(tag, "Percentage", "", "", n, <<>>) : n \in {0, 50}}
    \cup {Prop(tag, "Calc", "", "", 0, t) : t \in CalcTexts}
    : tag \in LengthValueTags \cup SizeTags}

\* MinContent is a keyword of Size only.
WellTyped(prop) == prop.k = "MinContent" => prop.tag \in SizeTags

\* The most shadows of a box-shadow value.
MaxShadows == 2

ShadowUniverse ==
  {Shadow(LengthOf("Value", "px", 1, <<>>), LengthOf("Value", "px", 2, <<>>),
          LengthOf("Value", "px", 3, <<>>), LengthOf("Value", "px", 4, <<>>),
          "red", FALSE),
   Shadow(LengthOf("Calc", "", 0, <<"c", "a", "l", "c", "(">> \o T_sum \o <<")">>),
          LengthOf("Value", "vw", 0, <<>>),
          LengthOf("Value", "px", 0, <<>>), LengthOf("Value", "px", 0, <<>>),
          "currentColor", TRUE)}

BoxShadowProps == {BoxShadowProp(l) : l \in SeqsUpTo(ShadowUniverse, MaxShadows)}

ColorProps ==
  {Prop(tag, "Color", c, "", 0, <<>>) :
     tag \in ColorTags, c \in {"red", "#ffffff", "rgba(0, 0, 0, .5)"}}

NumberProps ==
  {Prop(tag, "Number", "", "", n, <<>>) : tag \in NumberTags, n \in {0, 2}}

\* The most animations, or values of a longhand list, of one declaration.
MaxAnims == 2

T_fade == <<"f", "a", "d", "e">>
T_spin == <<"s", "p", "i", "n">>

AnimationItems ==
  {AnimationItem(AnimationName("Ident", T_fade), Time("Seconds", 2),
                 Time("Seconds", 1), IterationCount("Number", 3), "Ease"),
   AnimationItem(AnimationName("Ident", T_spin), Time("Milliseconds", 500),
                 Time("Milliseconds", 100), IterationCount("Infinite", 0), "Linear"),
   AnimationItem(AnimationName("None", <<>>), Time("Seconds", 0),
                 Time("Milliseconds", 0), IterationCount("Number", 1), "Ease")}

NonEmptySeqs(S, n) == SeqsUpTo(S, n) \ {<<>>}

AnimationProps ==
  {AnimationProp("Animation", l) : l \in NonEmptySeqs(AnimationItems, MaxAnims)}
  \cup {AnimationProp(tag, l) :
          tag \in {"AnimationDelay", "AnimationDuration"},
          l \in NonEmptySeqs({Time("Seconds", 2), Time("Milliseconds", 500)}, MaxAnims)}
  \cup {AnimationProp("AnimationIterationCount", l) :
          l \in NonEmptySeqs({IterationCount("Number", 3),
                              IterationCount("Infinite", 0)}, MaxAnims)}
  \cup {AnimationProp("AnimationName", l) :
          l \in NonEmptySeqs({AnimationName("Ident", T_fade),
                              AnimationName("Ident", T_spin)}, MaxAnims)}
  \cup {AnimationProp("AnimationTimingFunction", l) :
          l \in NonEmptySeqs({"Ease", "Linear"}, MaxAnims)}

\* A declaration of a keyframe item.
KeyframeDecl(id, text) == [id |-> id, text |-> text]

FadeItems ==
  <<KeyFrameItem(0, <<KeyframeDecl("opacity", <<"0">>)>>),
    KeyFrameItem(50, <<>>),
    KeyFrameItem(100, <<KeyframeDecl("opacity", <<"1">>),
                        KeyframeDecl("width", <<"1", "0", "p", "x">>)>>)>>

\* The Keyframe Tables handed to the constructor: none, an empty one, one with
\* an entry for fade, one that has an entry without items as well.
KeyframeTables ==
  {None, Some(<<>>), Some([n \in {T_fade} |-> FadeItems]),
   Some([n \in {T_fade, T_spin} |-> IF n = T_fade THEN FadeItems ELSE <<>>])}

LowerProps ==
  DisplayProps \cup {p \in LengthProps : WellTyped(p)}
    \cup ColorProps \cup NumberProps \cup BoxShadowProps \cup AnimationProps

\* The variants that are lowered through their own ToExpr.
OtherVariants == {"BoxShadow", "Animation"}

\* A variant with a property to construct it from and the Keyframe Table of
\* the call; the calc() texts go to the variants that read them, a table to
\* the variant that takes one.
LowerInputs ==
  {vp \in (Variants \cup OtherVariants) \X LowerProps \X KeyframeTables :
     /\ vp[2].k = "Calc" => vp[1] \in {"LengthValueProperty", "SizeProperty"}
     /\ vp[3] # None => vp[1] = "Animation"}

\* The identifier a variant is constructed with.
VariantId(variant) ==
  CASE variant \in Variants   -> IdOf(variant)
    [] variant = "BoxShadow"  -> "boxShadow"
    [] variant = "Animation"  -> "animation"

\* The variant's From<(String, &Property)>.
Variant_from(variant, id, prop, keyframes) ==
  CASE variant \in Variants   -> StyleValueType_from(variant, prop)
    [] variant = "BoxShadow"  -> BoxShadow_from(id, prop)
    [] variant = "Animation"  -> Animation_from(id, prop, keyframes)

\* The variant's lowering for a platform: to_rn_expr for React-Native, to_expr
\* for Harmony.
Variant_to_expr(variant, id, value, platform) ==
  CASE variant \in Variants -> StyleValueType_to_expr(variant, id, value, platform)
    [] variant = "BoxShadow" ->
         (IF platform = "ReactNative" THEN BoxShadow_to_rn_expr(value)
          ELSE BoxShadow_to_expr(value))
    [] variant = "Animation" ->
         (IF platform = "ReactNative" THEN Animation_to_rn_expr(value)
          ELSE Animation_to_expr(value))

RECURSIVE ExprPanics(_)
\* An expression that holds a panic: it was never built.
ExprPanics(e) ==
  \/ e.kind = "Panic"
  \/ e.kind = "Object" /\ \E i \in DOMAIN e.props : ExprPanics(e.props[i].value)

LowerIdle ==
  /\ lw_pc = "idle" /\ lw_variant = "" /\ lw_prop = NoValue
  /\ lw_platform = "" /\ lw_value = NoValue /\ lw_out = NoValue
  /\ lw_keyframes = None

InjectIdle ==
  /\ in_pc = "idle" /\ in_pass = 0 /\ in_parent = <<>> /\ in_attrs = <<>>
  /\ in_attrs0 = <<>> /\ in_attrs1 = <<>> /\ in_todo = <<>> /\ in_visited = {}
  /\ style_record = <<>>

BuildIdle ==
  /\ b_pc = "idle" /\ b_unit = NoValue /\ b_trees = <<>> /\ b_stack = <<>>
  /\ b_origin = <<>>

InitLower ==
  /\ lw_pc = "start"
  /\ \E vp \in LowerInputs :
       lw_variant = vp[1] /\ lw_prop = vp[2] /\ lw_keyframes = vp[3]
  /\ lw_platform = "" /\ lw_value = NoValue /\ lw_out = NoValue
  /\ InjectIdle /\ BuildIdle /\ jsx_record = <<>>

\* StyleValueType::from(identifier, parsed_property)
Construct ==
  /\ lw_pc = "start"
  /\ lw_value' = Variant_from(lw_variant, VariantId(lw_variant), lw_prop, lw_keyframes)
  /\ lw_pc' = "built"
  /\ UNCHANGED <<lw_variant, lw_prop, lw_platform, lw_out, lw_keyframes>>
  /\ UNCHANGED <<injectVars, jsx_record, buildVars>>

\* The lowering did not return: one of its expressions panicked.
Panicked(out) ==
  \/ out.tuple = "Panic"
  \/ out.tuple = "One" /\ ExprPanics(out.expr)
  \/ out.tuple = "Array" /\ \E i \in DOMAIN out.items : ExprPanics(out.items[i].value)

\* ToStyleValue::to_expr(platform)
Lower ==
  /\ lw_pc = "built"
  /\ \E platform \in Platform :
       LET out == Variant_to_expr(lw_variant, VariantId(lw_variant), lw_value, platform)
       IN  /\ lw_platform' = platform
           /\ lw_out' = IF Panicked(out) THEN NoValue ELSE out
           /\ lw_pc' = IF Panicked(out) THEN "panic" ELSE "lowered"
  /\ UNCHANGED <<lw_variant, lw_prop, lw_value, lw_keyframes>>
  /\ UNCHANGED <<injectVars, jsx_record, buildVars>>

NextLower == Construct \/ Lower

SpecLower == InitLower /\ [][NextLower]_vars

-----------------------------------------------------------------------------
(* The Injector: AstMutVisitor, visitor.rs *)
(* In the texts of this part a run of characters that holds neither ':'    *)
(* nor ';' is written as one symbol.                                        *)

RECURSIVE Split(_, _)
\* str::split(sep) for a one-character separator: the pieces between the
\* separators, the empty ones included.
Split(s, sep) ==
  IF \A i \in 1..Len(s) : s[i] # sep THEN <<s>>
  ELSE LET i == CHOOSE j \in 1..Len(s) :
                  s[j] = sep /\ \A k \in 1..(j - 1) : s[k] # sep
       IN  <<SubSeq(s, 1, i - 1)>> \o Split(SubSeq(s, i + 1, Len(s)), sep)

\* HashMap::insert
MapInsert(m, k, v) == [x \in DOMAIN m \cup {k} |-> IF x = k THEN v ELSE m[x]]

\* A declaration of a StyleRecord block, by the two texts the Injector reads:
\* property_id().to_css_string() and value_to_css_string().
Decl(id, value) == [property_id |-> id, value |-> value]

\* Attribute values (Option<JSXAttrValue>) by shape:
\*   "None" no value, "LitStr" (text), "LitNum" another literal,
\*   "EmptyExpr" {} , "Object" {{..}} (props), "OtherExpr" {e},
\*   "JSXElement", "JSXFragment".
AttrValue(shape, text, props) == [shape |-> shape, text |-> text, props |-> props]

\* JSXAttrOrSpread: kind "JSXAttr" (nameKind "Ident" | "JSXNamespacedName") or
\* "SpreadElement".
Attr(kind, nameKind, name, value) ==
  [kind |-> kind, nameKind |-> nameKind, name |-> name, value |-> value]

\* PropOrSpread of an object literal: kind "KeyValue" (keyKind "Ident" | "Str"),
\* "Shorthand" or "Spread"; value: an expression of the source ("Expr") or the
\* string an injected entry holds ("Str").
ObjProp(kind, keyKind, key, vkind, vtext) ==
  [kind |-> kind, keyKind |-> keyKind, key |-> key,
   value |-> [kind |-> vkind, text |-> vtext]]

IsStyleAttr(attr) ==
  attr.kind = "JSXAttr" /\ attr.nameKind = "Ident" /\ attr.name = "style"

\* visitor.rs 627-638: the map seeded from the StyleRecord block.
RECURSIVE SeedProperties(_, _)
SeedProperties(m, decls) ==
  IF decls = <<>> THEN m
  ELSE SeedProperties(MapInsert(m, Head(decls).property_id, Head(decls).value),
                      Tail(decls))

\* visitor.rs 639-647: the literal's pieces, inserted when split(":") gives
\* exactly two parts.
RECURSIVE InsertLiteral(_, _)
InsertLiteral(m, pieces) ==
  IF pieces = <<>> THEN m
  ELSE LET property == Split(Head(pieces), ":")
       IN  InsertLiteral(IF Len(property) = 2
                         THEN MapInsert(m, property[1], property[2])
                         ELSE m,
                         Tail(pieces))

RECURSIVE StyleString_NoEnd(_)
\* StyleString with the `;` put between the entries only.
StyleString_NoEnd(entries) ==
  IF entries = <<>> THEN <<>>
  ELSE Head(entries).property_id \o <<":">> \o Head(entries).value
         \o (IF Len(entries) = 1 THEN <<>> ELSE <<";">>)
         \o StyleString_NoEnd(Tail(entries))

\* visitor.rs 648-654 and 748-761: "id:value;" for each entry, in the order given.
RECURSIVE StyleString(_)
StyleString(entries) ==
  IF entries = <<>> THEN <<>>
  ELSE Head(entries).property_id \o <<":">> \o Head(entries).value \o <<";">>
         \o StyleString(Tail(entries))

\* The orders a HashMap may be iterated in.
IterationOrders(m) ==
  {o \in [1..Cardinality(DOMAIN m) -> DOMAIN m] :
     \A i, j \in DOMAIN o : i # j => o[i] # o[j]}

\* visitor.rs 619-660: the texts a string-literal style may be rewritten to,
\* one for each iteration order of the merged map. entry: style_record.get(node_id),
\* an Option of a declaration block.
MergeLiteral(text, entry) ==
  LET seeded     == IF entry = None THEN <<>> ELSE SeedProperties(<<>>, entry[1])
      properties == InsertLiteral(seeded, Split(text, ";"))
  IN  {StyleString([i \in DOMAIN o |-> Decl(o[i], properties[o[i]])]) :
         o \in IterationOrders(properties)}

\* HasProperty matching the keys written as strings, not the identifiers.
HasProperty_StrKeys(props, decl) ==
  \E i \in 1..Len(props) :
    /\ props[i].kind = "KeyValue"
    /\ props[i].keyKind = "Str"
    /\ props[i].key = decl.property_id

\* visitor.rs 676-698: whether the object has an identifier key equal to the
\* declaration's property id.
HasProperty(props, decl) ==
  \E i \in 1..Len(props) :
    /\ props[i].kind = "KeyValue"
    /\ props[i].keyKind = "Ident"
    /\ props[i].key = decl.property_id

\* MergeObject giving an entry the value of the declaration of its key.
MergeObject_Overwrite(props, entry) ==
  IF entry = None THEN props
  ELSE LET decls == entry[1]
           hit(q) == {n \in DOMAIN decls :
                        /\ q.kind = "KeyValue" /\ q.keyKind = "Ident"
                        /\ q.key = decls[n].property_id}
           fresh == SelectSeq(decls, LAMBDA d : ~HasProperty(props, d))
       IN  [i \in DOMAIN props |->
              IF hit(props[i]) = {} THEN props[i]
              ELSE [props[i] EXCEPT
                      !.value = [kind |-> "Str",
                                 text |-> decls[CHOOSE n \in hit(props[i]) : TRUE].value]]]
           \o [i \in DOMAIN fresh |->
                 ObjProp("KeyValue", "Ident", fresh[i].property_id,
                         "Str", fresh[i].value)]

\* visitor.rs 672-721: the object literal's entries after the merge.
MergeObject(props, entry) ==
  LET properties == IF entry = None THEN <<>>
                    ELSE SelectSeq(entry[1], LAMBDA d : ~HasProperty(props, d))
  IN  props \o [i \in DOMAIN properties |->
                  ObjProp("KeyValue", "Ident", properties[i].property_id,
                          "Str", properties[i].value)]

\* visitor.rs 608-739, one turn of the loop: the values the attribute may have
\* after it.
RewriteAttr(attr, entry) ==
  IF ~IsStyleAttr(attr) THEN {attr}
  ELSE IF attr.value.shape = "LitStr"
  THEN {[attr EXCEPT !.value = AttrValue("LitStr", t, <<>>)] :
          t \in MergeLiteral(attr.value.text, entry)}
  ELSE IF attr.value.shape = "Object"
  THEN {[attr EXCEPT !.value.props = MergeObject(attr.value.props, entry)]}
  ELSE {attr}

RECURSIVE StyleFlags_HandledOnly(_, _, _)
\* StyleFlags with has_style set in the string and object branches only.
StyleFlags_HandledOnly(attrs, i, flags) ==
  IF i > Len(attrs) THEN flags
  ELSE StyleFlags_HandledOnly(attrs, i + 1,
         IF ~IsStyleAttr(attrs[i]) THEN flags
         ELSE IF attrs[i].value.shape \in {"None", "EmptyExpr"}
         THEN [has_style |-> FALSE, has_empty_style |-> TRUE]
         ELSE IF attrs[i].value.shape \in {"LitStr", "Object"}
         THEN [has_style |-> TRUE, has_empty_style |-> flags.has_empty_style]
         ELSE flags)

RECURSIVE StyleFlags(_, _, _)
\* visitor.rs 606-739: has_style and has_empty_style after the loop.
StyleFlags(attrs, i, flags) ==
  IF i > Len(attrs) THEN flags
  ELSE StyleFlags(attrs, i + 1,
         IF ~IsStyleAttr(attrs[i]) THEN flags
         ELSE IF attrs[i].value.shape \in {"None", "EmptyExpr"}
         THEN [has_style |-> FALSE, has_empty_style |-> TRUE]
         ELSE [has_style |-> TRUE, has_empty_style |-> flags.has_empty_style])

RECURSIVE ProductSeq(_)
\* The sequences that take their i-th element in the i-th set.
ProductSeq(sets) ==
  IF sets = <<>> THEN {<<>>}
  ELSE {<<h>> \o t : h \in Head(sets), t \in ProductSeq(Tail(sets))}

\* RebuildStyle putting a new style attribute first in the list.
RebuildStyle_PushFront(attrs, flags, entry) ==
  IF flags.has_style \/ entry = None THEN attrs
  ELSE LET style == AttrValue("LitStr", StyleString(entry[1]), <<>>)
       IN  IF flags.has_empty_style
           THEN [i \in DOMAIN attrs |->
                   IF IsStyleAttr(attrs[i]) THEN [attrs[i] EXCEPT !.value = style]
                   ELSE attrs[i]]
           ELSE <<Attr("JSXAttr", "Ident", "style", style)>> \o attrs

\* visitor.rs 741-788: the style built from the StyleRecord block alone,
\* put in the place of every empty style attribute or pushed as a new one.
RebuildStyle(attrs, flags, entry) ==
  IF flags.has_style \/ entry = None THEN attrs
  ELSE LET style == AttrValue("LitStr", StyleString(entry[1]), <<>>)
       IN  IF flags.has_empty_style
           THEN [i \in DOMAIN attrs |->
                   IF IsStyleAttr(attrs[i]) THEN [attrs[i] EXCEPT !.value = style]
                   ELSE attrs[i]]
           ELSE Append(attrs, Attr("JSXAttr", "Ident", "style", style))

\* InjectElement taking a node without a StyleRecord entry as one with an
\* empty block.
InjectElement_EmptyBlock(attrs, node, record) ==
  IF node = None THEN {attrs}
  ELSE LET entry == IF node[1] \in DOMAIN record THEN Some(record[node[1]])
                    ELSE Some(<<>>)
           flags == StyleFlags(attrs, 1,
                               [has_style |-> FALSE, has_empty_style |-> FALSE])
       IN  {RebuildStyle(rewritten, flags, entry) :
              rewritten \in ProductSeq([i \in DOMAIN attrs |->
                                          RewriteAttr(attrs[i], entry)])}

\* visitor.rs 600-789: the attribute lists an element may have after
\* visit_mut_jsx_element. node: jsx_record.get(span_key), an Option of a NodeId;
\* record: the StyleRecord.
InjectElement(attrs, node, record) ==
  IF node = None THEN {attrs}
  ELSE LET entry == IF node[1] \in DOMAIN record THEN Some(record[node[1]]) ELSE None
           flags == StyleFlags(attrs, 1,
                               [has_style |-> FALSE, has_empty_style |-> FALSE])
       IN  {RebuildStyle(rewritten, flags, entry) :
              rewritten \in ProductSeq([i \in DOMAIN attrs |->
                                          RewriteAttr(attrs[i], entry)])}

-----------------------------------------------------------------------------
(* The Injector's traversal, as a state machine *)

\* The elements of the syntax tree the Injector is run on.
MaxElems == 2
\* The longest StyleRecord declaration block.
MaxDecls == 2
\* The most `;`-separated pieces of a string-literal style.
MaxPieces == 2
\* The most entries of an object-literal style.
MaxProps == 2

RECURSIVE IsAncestorOrSelf(_, _, _)
IsAncestorOrSelf(parent, a, e) ==
  a = e \/ (parent[e] # 0 /\ IsAncestorOrSelf(parent, a, parent[e]))

\* The trees of MaxElems elements, numbered in source order: element 1 is the
\* outermost, and each later one opens inside an element still open.
TreeShapes ==
  {parent \in [1..MaxElems -> 0..MaxElems] :
     /\ parent[1] = 0
     /\ \A k \in 2..MaxElems :
          parent[k] \in 1..(k - 1) /\ IsAncestorOrSelf(parent, parent[k], k - 1)}

\* JSXElement.children, the elements among them, in source order.
Children(parent, e) ==
  LET kids == {k \in DOMAIN parent : parent[k] = e}
  IN  [i \in 1..Cardinality(kids) |->
         CHOOSE k \in kids : Cardinality({j \in kids : j < k}) = i - 1]

\* The source range of element e: it holds the ranges of e's descendants.
Span(parent, e) ==
  LET size == Cardinality({k \in DOMAIN parent : IsAncestorOrSelf(parent, e, k)})
  IN  [lo |-> 10 * e, hi |-> 10 * (e + size) - e, ctxt |-> 0]

\* struct SpanKey with its PartialEq and Hash: lo and hi alone.
SpanKey(span) == <<span.lo, span.hi>>

DeclUniverse ==
  {Decl(<<"color">>, <<"blue">>), Decl(<<"color">>, <<"green">>),
   Decl(<<"background">>, <<"white">>)}

DeclBlocks == SeqsUpTo(DeclUniverse, MaxDecls)

Pieces ==
  {<<"color", ":", "red">>, <<"background", ":", "url(http", ":", "//x)">>, <<>>}

Literals == {JoinWith(ps, <<";">>) : ps \in SeqsUpTo(Pieces, MaxPieces)}

ObjPropUniverse ==
  {ObjProp("KeyValue", "Ident", <<"color">>, "Expr", <<"e1">>),
   ObjProp("KeyValue", "Str", <<"color">>, "Expr", <<"e2">>),
   ObjProp("Spread", "", <<>>, "Expr", <<"e3">>)}

StyleValues ==
  {AttrValue(shape, <<>>, <<>>) :
     shape \in {"None", "LitNum", "EmptyExpr", "OtherExpr", "JSXElement", "JSXFragment"}}
  \cup {AttrValue("LitStr", t, <<>>) : t \in Literals}
  \cup {AttrValue("Object", <<>>, ps) : ps \in SeqsUpTo(ObjPropUniverse, MaxProps)}

StyleAttr(value) == Attr("JSXAttr", "Ident", "style", value)
IdAttr     == Attr("JSXAttr", "Ident", "id", AttrValue("LitStr", <<"x">>, <<>>))
NsAttr     == Attr("JSXAttr", "JSXNamespacedName", "style",
                   AttrValue("LitStr", <<"y">>, <<>>))
SpreadAttr == Attr("SpreadElement", "", "", AttrValue("OtherExpr", <<>>, <<>>))

\* The style values of the attribute lists that hold two style attributes.
TwiceValues ==
  {AttrValue("EmptyExpr", <<>>, <<>>), AttrValue("OtherExpr", <<>>, <<>>),
   AttrValue("LitStr", <<"color", ":", "red">>, <<>>),
   AttrValue("Object", <<>>,
             <<ObjProp("KeyValue", "Ident", <<"color">>, "Expr", <<"e1">>)>>)}

AttrLists ==
  {<<>>, <<IdAttr>>, <<NsAttr, SpreadAttr>>}
  \cup {<<StyleAttr(v)>> : v \in StyleValues}
  \cup {<<IdAttr, StyleAttr(v), SpreadAttr>> : v \in StyleValues}
  \cup {<<StyleAttr(v), StyleAttr(w)>> : v \in TwiceValues, w \in TwiceValues}

\* The NodeId the Source Tree gives element e: the tree's root has the first.
NodeOf(e) == e + 1

InitInject ==
  /\ LowerIdle /\ BuildIdle
  /\ in_pc = "run" /\ in_pass = 1
  /\ in_parent \in TreeShapes
  /\ \E subject \in 1..MaxElems, attrs \in AttrLists,
        status \in {"absent", "recorded", "styled"}, block \in DeclBlocks :
       LET recorded == {e \in 1..MaxElems : e = subject /\ status # "absent"}
           styled   == {e \in 1..MaxElems : e = subject /\ status = "styled"}
       IN  /\ styled = {} => block = <<>>
           /\ in_attrs = [e \in 1..MaxElems |->
                            IF e = subject THEN attrs ELSE <<IdAttr>>]
           /\ jsx_record = [k \in {SpanKey(Span(in_parent, e)) : e \in recorded} |->
                              NodeOf(CHOOSE e \in recorded :
                                       SpanKey(Span(in_parent, e)) = k)]
           /\ style_record = [n \in {NodeOf(e) : e \in styled} |-> block]
  /\ in_attrs0 = in_attrs
  /\ in_attrs1 = <<>>
  /\ in_todo = <<1>>
  /\ in_visited = {}

\* AstMutVisitor::visit_mut_jsx_element on the next element: the merge into its
\* style attribute, then visit_mut_children_with.
VisitMutJsxElement ==
  /\ in_pc = "run" /\ in_todo # <<>>
  /\ LET e    == Head(in_todo)
         key  == SpanKey(Span(in_parent, e))
         node == IF key \in DOMAIN jsx_record THEN Some(jsx_record[key]) ELSE None
         todo == Children(in_parent, e) \o Tail(in_todo)
     IN  /\ \E attrs \in InjectElement(in_attrs[e], node, style_record) :
              in_attrs' = [in_attrs EXCEPT ![e] = attrs]
         /\ in_todo' = todo
         /\ in_visited' = in_visited \cup {e}
         /\ in_pc' = IF todo = <<>> THEN "done" ELSE "run"
  /\ UNCHANGED <<in_pass, in_parent, in_attrs0, in_attrs1, jsx_record, style_record>>
  /\ UNCHANGED <<lowerVars, buildVars>>

\* The Injector run once more on the injected tree, with the same JSXRecord and
\* StyleRecord.
InjectAgain ==
  /\ in_pc = "done" /\ in_pass = 1
  /\ in_pass' = 2
  /\ in_attrs1' = in_attrs
  /\ in_todo' = <<1>>
  /\ in_visited' = {}
  /\ in_pc' = "run"
  /\ UNCHANGED <<in_parent, in_attrs, in_attrs0, jsx_record, style_record>>
  /\ UNCHANGED <<lowerVars, buildVars>>

NextInject == VisitMutJsxElement \/ InjectAgain

SpecInject == InitInject /\ [][NextInject]_vars

-----------------------------------------------------------------------------
(* Properties of the lowering *)

Lowered(variant) == lw_pc = "lowered" /\ lw_variant = variant

\* C9: Display lowering. The keyword none lowers to "none"; a pair lowers to
\* "flex" exactly when its inside-display is flex, to "block" exactly when its
\* outside-display is block and its inside-display is not flex, and to the
\* invalid marker otherwise; every other keyword and every property that is not
\* a display lowers to the invalid marker; the Harmony and the React-Native
\* lowering of the constructed value are equal.
C9_DisplayLowering ==
  Lowered("Display") =>
    LET p == lw_prop
        e == lw_out.expr
        isKeyword == p.tag = "Display" /\ p.k = "Keyword"
        isPair    == p.tag = "Display" /\ p.k = "Pair"
    IN  /\ lw_out.tuple = "One" /\ lw_out.id = IdOf("Display")
        /\ (isKeyword /\ p.a = "None") => e = ExprLitStr(T_none)
        /\ (isKeyword /\ p.a # "None") => e = ExprInvalid
        /\ isPair => /\ (e = ExprLitStr(T_flex)) <=> (p.b = "Flex")
                     /\ (e = ExprLitStr(T_block)) <=> (p.a = "Block" /\ p.b # "Flex")
                     /\ e \in {ExprLitStr(T_flex), ExprLitStr(T_block), ExprInvalid}
        /\ p.tag # "Display" => e = ExprInvalid
        /\ Display_to_expr(lw_out.id, lw_value) = Display_to_rn_expr(lw_out.id, lw_value)

\* A block/flex pair has been lowered to "flex" for React-Native.
C9_Witness ==
  /\ Lowered("Display") /\ lw_platform = "ReactNative"
  /\ lw_prop.k = "Pair" /\ lw_prop.a = "Block" /\ lw_prop.b = "Flex"
  /\ lw_out.expr = ExprLitStr(T_flex)

\* C10: in every length and size variant a value of auto lowers to the string
\* "auto" on React-Native and to the invalid marker on Harmony.
C10_AutoLowering ==
  (/\ lw_pc = "lowered"
   /\ lw_variant \in {"LengthValueProperty", "SizeProperty"}
   /\ lw_prop.k = "Auto" /\ lw_value.k = "Auto")
  => /\ lw_platform = "ReactNative" => lw_out.expr = ExprLitStr(T_auto)
     /\ lw_platform = "Harmony" => lw_out.expr = ExprInvalid

\* The members of a set of numbers, in increasing order.
SortedSeq(S) ==
  [k \in 1..Cardinality(S) |->
     CHOOSE x \in S : Cardinality({y \in S : y < x}) = k - 1]

\* The units the rewriting looks for.
CalcUnits == {<<"p", "x">>, <<"v", "w">>, <<"v", "h">>}

\* The numeric tokens of a text that a unit follows: each is a maximal run of
\* digits s[lo..hi] with a unit at hi+1 and hi+2.
NumericTokens(s) ==
  LET starts == {i \in 1..Len(s) : IsDigit(s[i]) /\ (i = 1 \/ ~IsDigit(s[i - 1]))}
      end(lo) == CHOOSE hi \in lo..Len(s) :
                   /\ \A i \in lo..hi : IsDigit(s[i])
                   /\ (hi = Len(s) \/ ~IsDigit(s[hi + 1]))
  IN  {t \in {<<lo, end(lo)>> : lo \in starts} :
         /\ t[2] + 2 <= Len(s)
         /\ SubSeq(s, t[2] + 1, t[2] + 2) \in CalcUnits}

\* The helper calls of a lowered text: each goes from a "$" to the next "}".
HelperCalls(s) ==
  LET starts == {i \in 1..Len(s) : s[i] = "$" /\ \E j \in i..Len(s) : s[j] = "}"}
      end(lo) == CHOOSE hi \in lo..Len(s) :
                   s[hi] = "}" /\ \A i \in lo..(hi - 1) : s[i] # "}"
  IN  {<<lo, end(lo)>> : lo \in starts}

\* The text outside the given stretches <<lo, hi>>.
Outside(s, stretches) ==
  LET keep == {i \in 1..Len(s) : \A t \in stretches : i < t[1] \/ i > t[2]}
      idx  == SortedSeq(keep)
  IN  [k \in DOMAIN idx |-> s[idx[k]]]

\* The helper the claim names for a platform and a unit.
HelperFor(platform, unit) ==
  IF platform = "Harmony" THEN CONVERT_STYLE_PX_FN
  ELSE IF unit = <<"p", "x">> THEN RN_CONVERT_STYLE_PX_FN
  ELSE RN_CONVERT_STYLE_VU_FN

\* The lowering of a calc() value of the variant's own property is over.
CalcLowered ==
  /\ lw_pc \in {"lowered", "panic"}
  /\ lw_variant \in {"LengthValueProperty", "SizeProperty"}
  /\ lw_prop.k = "Calc"
  /\ lw_value.k = "String" /\ lw_value.text = lw_prop.text

\* C11: the lowering of a calc() value returns a template string that is the text of
\* the value with every numeric token (a maximal run of digits) that px, vw or
\* vh follows replaced, in place, by one call of the helper that the platform
\* and the unit determine, with the token's number and unit as arguments; the
\* text outside the tokens, the operators included, is the same in the same
\* order; `calc(10px + 5vw)` gives two calls with " + " between them.
C11_CalcRewrite ==
  CalcLowered =>
    LET in     == lw_prop.text
        out    == IF lw_pc = "lowered" THEN lw_out.expr.text ELSE <<>>
        toks   == SortedSeq({t[1] : t \in NumericTokens(in)})
        tokEnd == [k \in DOMAIN toks |->
                     (CHOOSE t \in NumericTokens(in) : t[1] = toks[k])[2] + 2]
        spans  == {<<t[1], t[2] + 2>> : t \in NumericTokens(in)}
        calls  == SortedSeq({t[1] : t \in HelperCalls(out)})
        callEnd == [k \in DOMAIN calls |->
                     (CHOOSE t \in HelperCalls(out) : t[1] = calls[k])[2]]
    IN  /\ lw_pc = "lowered"
        /\ lw_out.expr.kind = "Tpl"
        /\ CONVERT_STYLE_PX_FN # RN_CONVERT_STYLE_PX_FN
        /\ CONVERT_STYLE_PX_FN # RN_CONVERT_STYLE_VU_FN
        /\ RN_CONVERT_STYLE_PX_FN # RN_CONVERT_STYLE_VU_FN
        /\ Len(calls) = Len(toks)
        /\ \A k \in DOMAIN toks :
             LET unit == SubSeq(in, tokEnd[k] - 1, tokEnd[k])
                 num  == StripZeros(SubSeq(in, toks[k], tokEnd[k] - 2))
             IN  /\ SubSeq(out, calls[k], callEnd[k]) =
                      <<"$", "{">> \o HelperFor(lw_platform, unit) \o <<"(">>
                        \o num \o <<",", " ", "'">> \o unit \o <<"'", ")", "}">>
                 /\ Outside(SubSeq(in, 1, toks[k] - 1), spans)
                      = Outside(SubSeq(out, 1, calls[k] - 1), HelperCalls(out))
        /\ Outside(in, spans)
             = Outside(out, HelperCalls(out))
        /\ in = <<"c", "a", "l", "c", "(">> \o T_sum \o <<")">> =>
             /\ Len(calls) = 2
             /\ SubSeq(out, callEnd[1] + 1, calls[2] - 1) = <<" ", "+", " ">>

\* The keys of a sequence of key-value pairs, in order.
Keys(kvs) == [i \in DOMAIN kvs |-> kvs[i].key]

\* The lowering of a BoxShadow is over.
BoxShadowDone == lw_pc \in {"lowered", "panic"} /\ lw_variant = "BoxShadow"

\* The five fields of the constructed BoxShadow are present.
AllFivePresent ==
  /\ lw_value.offset_x # None /\ lw_value.offset_y # None
  /\ lw_value.blur_radius # None /\ lw_value.color # None
  /\ lw_value.inset # None

\* C12: a box-shadow whose x-offset, y-offset, blur radius, color and inset are
\* all present lowers on Harmony to one boxShadow object with exactly the fields
\* offsetX, offsetY, radius, color, fill in this order, each the lowering of its
\* sub-value, and on React-Native to exactly three fields: an offset object
\* holding width and height, a color field and a radius field.
C12_BoxShadowFields ==
  (BoxShadowDone /\ AllFivePresent) =>
    /\ lw_pc = "lowered"
    /\ lw_platform = "Harmony" =>
         /\ lw_out.tuple = "One" /\ lw_out.id = "boxShadow"
         /\ lw_out.expr.kind = "Object"
         /\ Keys(lw_out.expr.props) = <<"offsetX", "offsetY", "radius", "color", "fill">>
         /\ lw_out.expr.props[1].value =
              generate_expr_by_length(lw_value.offset_x[1], "Harmony")
         /\ lw_out.expr.props[2].value =
              generate_expr_by_length(lw_value.offset_y[1], "Harmony")
         /\ lw_out.expr.props[3].value =
              generate_expr_by_length(lw_value.blur_radius[1], "Harmony")
         /\ lw_out.expr.props[4].value = generate_string_by_css_color(lw_value.color[1])
         /\ lw_out.expr.props[5].value = ExprLitBool(lw_value.inset[1])
    /\ lw_platform = "ReactNative" =>
         /\ lw_out.tuple = "Array"
         /\ Keys(lw_out.items) = <<"BoxShadowOffset", "BoxShadowColor", "BoxShadowRadius">>
         /\ lw_out.items[1].value.kind = "Object"
         /\ Keys(lw_out.items[1].value.props) = <<"width", "height">>
         /\ lw_out.items[1].value.props[1].value =
              generate_expr_by_length(lw_value.offset_x[1], "ReactNative")
         /\ lw_out.items[1].value.props[2].value =
              generate_expr_by_length(lw_value.offset_y[1], "ReactNative")
         /\ lw_out.items[2].value = generate_string_by_css_color(lw_value.color[1])
         /\ lw_out.items[3].value =
              generate_expr_by_length(lw_value.blur_radius[1], "ReactNative")

\* A box-shadow of one shadow with an inset has been lowered for Harmony, and
\* its last field is fill: true.
C12_Witness ==
  /\ BoxShadowDone /\ AllFivePresent /\ lw_pc = "lowered"
  /\ lw_platform = "Harmony"
  /\ lw_prop.tag = "BoxShadow" /\ Len(lw_prop.shadows) = 1
  /\ Len(lw_out.expr.props) = 5
  /\ lw_out.expr.props[5] = KeyValue("fill", ExprLitBool(TRUE))

\* C13: the lowering of a box-shadow whose color is absent returns on both
\* platforms: on Harmony a boxShadow object without a color field, on
\* React-Native the invalid marker; the React-Native lowering also returns the
\* invalid marker when the x-offset, the y-offset or the blur radius is absent.
C13_AbsentColor ==
  BoxShadowDone =>
    /\ lw_pc = "lowered"
    /\ (lw_platform = "Harmony" /\ lw_value.color = None) =>
         /\ lw_out.tuple = "One" /\ lw_out.expr.kind = "Object"
         /\ \A i \in DOMAIN lw_out.expr.props : lw_out.expr.props[i].key # "color"
    /\ (/\ lw_platform = "ReactNative"
        /\ \/ lw_value.color = None \/ lw_value.offset_x = None
           \/ lw_value.offset_y = None \/ lw_value.blur_radius = None) =>
         /\ lw_out.tuple = "One" /\ lw_out.expr = ExprInvalid

\* C29: in the lowered text of a calc() value no part of a token's number is
\* left outside the helper call that replaces the token: the character before
\* a helper call is neither a digit nor a decimal point.
C29_WholeToken ==
  (CalcLowered /\ lw_pc = "lowered") =>
    LET out == lw_out.expr.text
    IN  \A c \in HelperCalls(out) :
          c[1] = 1 \/ (~IsDigit(out[c[1] - 1]) /\ out[c[1] - 1] # ".")

\* A BoxShadow was constructed from a box-shadow property.
BoxShadowConstructed ==
  /\ lw_pc \in {"built", "lowered", "panic"}
  /\ lw_variant = "BoxShadow" /\ lw_prop.tag = "BoxShadow"

\* C30: the BoxShadow constructed from a list of shadows carries the x-offset,
\* y-offset, blur radius, color and inset of the last shadow of the list; from
\* an empty list its five fields are absent; it has no field for the spread
\* radius.
C30_LastShadow ==
  BoxShadowConstructed =>
    LET shadows == lw_prop.shadows
        last    == shadows[Len(shadows)]
    IN  /\ DOMAIN lw_value =
             {"id", "offset_x", "offset_y", "blur_radius", "color", "inset"}
        /\ shadows = <<>> =>
             /\ lw_value.offset_x = None /\ lw_value.offset_y = None
             /\ lw_value.blur_radius = None /\ lw_value.color = None
             /\ lw_value.inset = None
        /\ shadows # <<>> =>
             /\ lw_value.offset_x = Some(last.x_offset)
             /\ lw_value.offset_y = Some(last.y_offset)
             /\ lw_value.blur_radius = Some(last.blur)
             /\ lw_value.color = Some(last.color)
             /\ lw_value.inset = Some(last.inset)

\* Two different shadows, the second one inset: the BoxShadow is inset.
C30_Witness ==
  /\ BoxShadowConstructed /\ Len(lw_prop.shadows) = 2
  /\ lw_prop.shadows[1] # lw_prop.shadows[2]
  /\ lw_prop.shadows[2].inset = TRUE /\ lw_value.inset = Some(TRUE)
  /\ lw_value.color = Some("currentColor")

\* The property tags a variant's constructor matches.
ExpectedTags(variant) ==
  CASE variant = "Display"             -> {"Display"}
    [] variant = "LengthValueProperty" -> LengthValueTags
    [] variant = "SizeProperty"        -> SizeTags
    [] variant = "ColorProperty"       -> ColorTags
    [] variant = "NumberProperty"      -> NumberTags
    [] variant = "BoxShadow"           -> {"BoxShadow"}
    [] variant = "Animation"           ->
         {"Animation", "AnimationDelay", "AnimationDuration",
          "AnimationIterationCount", "AnimationName", "AnimationTimingFunction"}

\* The variant was constructed from a property whose tag it does not match.
ConstructedFromOtherTag ==
  /\ lw_pc \in {"built", "lowered", "panic"}
  /\ lw_prop.tag \notin ExpectedTags(lw_variant)

\* C14: a variant constructed from a property whose tag it does not expect
\* holds its default: display Invalid, box-shadow its five fields absent,
\* animation its five animation fields absent, a color property the empty
\* string, a number property 0, a length-value or size property the text auto.
C14_DefaultOnOtherTag ==
  ConstructedFromOtherTag =>
    CASE lw_variant = "Display" -> lw_value.k = "Invalid"
      [] lw_variant = "BoxShadow" ->
           /\ lw_value.offset_x = None /\ lw_value.offset_y = None
           /\ lw_value.blur_radius = None /\ lw_value.color = None
           /\ lw_value.inset = None
      [] lw_variant = "Animation" ->
           /\ lw_value.animation_name = None /\ lw_value.animation_duration = None
           /\ lw_value.animation_delay = None /\ lw_value.animation_iteration = None
           /\ lw_value.animation_timeing_function = None
      [] lw_variant = "ColorProperty"  -> lw_value = ""
      [] lw_variant = "NumberProperty" -> lw_value = 0
      [] lw_variant \in {"LengthValueProperty", "SizeProperty"} ->
           lw_value.k = "String" /\ lw_value.text = T_auto

\* A number property was constructed from width: 10px.
C14_Witness ==
  /\ lw_pc = "built" /\ lw_variant = "NumberProperty"
  /\ lw_prop.tag = "Width" /\ lw_prop.k = "Dimension" /\ lw_prop.n = 10
  /\ lw_value = 0

\* An animation was constructed and lowered for Harmony.
AnimationLowered ==
  lw_pc \in {"lowered", "panic"} /\ lw_variant = "Animation" /\ lw_platform = "Harmony"

HasField(items, key) == \E i \in DOMAIN items : items[i].key = key

FieldValue(items, key) == items[CHOOSE i \in DOMAIN items : items[i].key = key].value

\* The duration and the delay the declaration gives: the first value of a
\* longhand's list, the last animation of the shorthand.
DurationGiven ==
  CASE lw_prop.tag = "AnimationDuration" -> Some(lw_prop.list[1])
    [] lw_prop.tag = "Animation" -> Some(lw_prop.list[Len(lw_prop.list)].duration)
    [] OTHER -> None

DelayGiven ==
  CASE lw_prop.tag = "AnimationDelay" -> Some(lw_prop.list[1])
    [] lw_prop.tag = "Animation" -> Some(lw_prop.list[Len(lw_prop.list)].delay)
    [] OTHER -> None

\* The Harmony lowering holds the numeric field key with the value n.
NumericField(key, n) ==
  /\ lw_pc = "lowered" /\ lw_out.tuple = "Array"
  /\ HasField(lw_out.items, key)
  /\ FieldValue(lw_out.items, key) = ExprLitNum(n)

\* C15: on Harmony a duration of s seconds lowers to animationDuration s*1000
\* and a delay of s seconds to animationDelay s*1000, for the longhand
\* properties and for the animation shorthand.
C15_SecondsTimes1000 ==
  AnimationLowered =>
    /\ (DurationGiven # None /\ DurationGiven[1].unit = "Seconds") =>
         NumericField("animationDuration", DurationGiven[1].n * 1000)
    /\ (DelayGiven # None /\ DelayGiven[1].unit = "Seconds") =>
         NumericField("animationDelay", DelayGiven[1].n * 1000)

\* animation-duration: 2s lowered for Harmony gives 2000.
C15_Witness ==
  /\ AnimationLowered /\ lw_pc = "lowered"
  /\ lw_prop.tag = "AnimationDuration" /\ lw_prop.list[1] = Time("Seconds", 2)
  /\ FieldValue(lw_out.items, "animationDuration") = ExprLitNum(2000)

\* C16, as stated: on Harmony a duration or delay of m milliseconds lowers to
\* the numeric value m*60.
C16_MillisecondsTimes60 ==
  AnimationLowered =>
    /\ (DurationGiven # None /\ DurationGiven[1].unit = "Milliseconds") =>
         NumericField("animationDuration", DurationGiven[1].n * 60)
    /\ (DelayGiven # None /\ DelayGiven[1].unit = "Milliseconds") =>
         NumericField("animationDelay", DelayGiven[1].n * 60)

\* C16, amended: on Harmony a duration or delay of m milliseconds lowers to
\* the numeric value m*60*1000: the constructor keeps m*60 and the lowering
\* multiplies what the constructor kept by 1000.
C16_MillisecondsTimes60000 ==
  AnimationLowered =>
    /\ (DurationGiven # None /\ DurationGiven[1].unit = "Milliseconds") =>
         NumericField("animationDuration", DurationGiven[1].n * 60 * 1000)
    /\ (DelayGiven # None /\ DelayGiven[1].unit = "Milliseconds") =>
         NumericField("animationDelay", DelayGiven[1].n * 60 * 1000)

\* animation-delay: 500ms lowered for Harmony gives 30000000.
C16_Witness ==
  /\ AnimationLowered /\ lw_pc = "lowered"
  /\ lw_prop.tag = "AnimationDelay" /\ lw_prop.list[1] = Time("Milliseconds", 500)
  /\ FieldValue(lw_out.items, "animationDelay") = ExprLitNum(30000000)

\* The animation name the declaration gives, as CSS text: the name of the
\* shorthand's last animation, the name list of the longhand.
NameGiven ==
  CASE lw_prop.tag = "AnimationName" -> Some(NameListCss(lw_prop.list))
    [] lw_prop.tag = "Animation" -> Some(NameCss(lw_prop.list[Len(lw_prop.list)].name))
    [] OTHER -> None

\* The Keyframe Table was supplied and has an entry for the given name.
NameFound ==
  /\ NameGiven # None /\ lw_keyframes # None
  /\ NameGiven[1] \in DOMAIN lw_keyframes[1]

\* e is the object {percentage, event} of the keyframe item.
KeyframeObjectOf(e, item) ==
  /\ e.kind = "Object" /\ Keys(e.props) = <<"percentage", "event">>
  /\ e.props[1].value = ExprLitNum(item.percentage)
  /\ e.props[2].value.kind = "Object"
  /\ Keys(e.props[2].value.props) =
       [i \in DOMAIN item.declarations |-> item.declarations[i].id]

\* C17: Harmony animation lowering. If the given name has an entry in the
\* Keyframe Table, the result has an animationName field holding one
\* {percentage, event} object per keyframe item of the entry, in the entry's
\* order; if the name has no entry, or no table was supplied, or no name was
\* given, the result has no animationName field. In every case the result has
\* the delay, iteration-count, duration and timing-function field of each of
\* these that the constructor set.
C17_AnimationName ==
  AnimationLowered =>
    /\ lw_pc = "lowered" /\ lw_out.tuple = "Array"
    /\ NameFound =>
         /\ HasField(lw_out.items, "animationName")
         /\ LET arr   == FieldValue(lw_out.items, "animationName")
                entry == lw_keyframes[1][NameGiven[1]]
            IN  /\ arr.kind = "Array" /\ Len(arr.elems) = Len(entry)
                /\ \A i \in DOMAIN entry : KeyframeObjectOf(arr.elems[i], entry[i])
    /\ ~NameFound => ~HasField(lw_out.items, "animationName")
    /\ lw_value.animation_delay # None => HasField(lw_out.items, "animationDelay")
    /\ lw_value.animation_iteration # None =>
         HasField(lw_out.items, "animationIterationCount")
    /\ lw_value.animation_duration # None => HasField(lw_out.items, "animationDuration")
    /\ lw_value.animation_timeing_function # None =>
         HasField(lw_out.items, "animationTimeingFunction")

\* The shorthand names fade, the table has three items for fade: the result
\* has the three objects and the four other fields.
C17_Witness ==
  /\ AnimationLowered /\ lw_pc = "lowered" /\ lw_prop.tag = "Animation"
  /\ NameFound /\ NameGiven[1] = T_fade
  /\ Len(FieldValue(lw_out.items, "animationName").elems) = 3
  /\ Len(lw_out.items) = 5

-----------------------------------------------------------------------------
(* Properties of the Injector *)

AllElems == DOMAIN in_attrs

\* jsx_record.get(SpanKey(e.span))
RecordedNode(e) ==
  LET key == SpanKey(Span(in_parent, e))
  IN  IF key \in DOMAIN jsx_record THEN Some(jsx_record[key]) ELSE None

\* The StyleRecord block of element e's node, if it has one.
BlockOf(e) ==
  IF RecordedNode(e) # None /\ RecordedNode(e)[1] \in DOMAIN style_record
  THEN Some(style_record[RecordedNode(e)[1]]) ELSE None

StyleIndexes(attrs) == {i \in DOMAIN attrs : IsStyleAttr(attrs[i])}

\* The element was written with exactly one style attribute, of one of shapes.
HadOneStyle(e, shapes) ==
  /\ Cardinality(StyleIndexes(in_attrs0[e])) = 1
  /\ \A i \in StyleIndexes(in_attrs0[e]) : in_attrs0[e][i].value.shape \in shapes

\* The index of that style attribute.
StyleIndex(e) == CHOOSE i \in StyleIndexes(in_attrs0[e]) : TRUE

\* The first pass has visited element e.
InjectedOnce(e) == in_pass = 1 /\ e \in in_visited

\* A text read as `;`-separated prop:value pairs: each piece that holds a ':'
\* is the pair of what precedes its first ':' and what follows it.
PairsOf(text) ==
  LET pieces == SelectSeq(Split(text, ";"), LAMBDA q : \E i \in DOMAIN q : q[i] = ":")
      first(q) == CHOOSE i \in DOMAIN q : q[i] = ":" /\ \A j \in 1..(i - 1) : q[j] # ":"
  IN  [n \in DOMAIN pieces |->
         [key   |-> SubSeq(pieces[n], 1, first(pieces[n]) - 1),
          value |-> SubSeq(pieces[n], first(pieces[n]) + 1, Len(pieces[n]))]]

KeysOf(pairs) == {pairs[n].key : n \in DOMAIN pairs}

\* The value the pairs give to key k: that of the last pair with the key.
ValueOf(pairs, k) ==
  pairs[CHOOSE n \in DOMAIN pairs :
          pairs[n].key = k /\ \A m \in DOMAIN pairs : pairs[m].key = k => m <= n].value

\* C2: after the Injector has processed an element whose style attribute is a
\* string literal, the rewritten string, read as `;`-separated prop:value pairs,
\* gives every key of the literal the value the literal gave it.
C2_LiteralWins ==
  \A e \in AllElems :
    (InjectedOnce(e) /\ RecordedNode(e) # None /\ HadOneStyle(e, {"LitStr"})) =>
      LET before == PairsOf(in_attrs0[e][StyleIndex(e)].value.text)
          now    == in_attrs[e][StyleIndex(e)].value
      IN  /\ now.shape = "LitStr"
          /\ \A k \in KeysOf(before) :
               /\ k \in KeysOf(PairsOf(now.text))
               /\ ValueOf(PairsOf(now.text), k) = ValueOf(before, k)

\* C3: the entries an object-literal style had before injection are still
\* there, at the same positions and with the same values; entries are only
\* appended.
C3_ObjectEntriesKept ==
  \A e \in AllElems :
    HadOneStyle(e, {"Object"}) =>
      LET before == in_attrs0[e][StyleIndex(e)].value.props
          now    == in_attrs[e][StyleIndex(e)].value
      IN  /\ now.shape = "Object"
          /\ Len(now.props) >= Len(before)
          /\ SubSeq(now.props, 1, Len(before)) = before

\* An object-literal style with an entry the StyleRecord also declares has been
\* injected into, and has grown.
C3_Witness ==
  \E e \in AllElems :
    /\ InjectedOnce(e) /\ HadOneStyle(e, {"Object"}) /\ BlockOf(e) # None
    /\ \E d \in Range(BlockOf(e)[1]) :
         HasProperty(in_attrs0[e][StyleIndex(e)].value.props, d)
    /\ Len(in_attrs[e][StyleIndex(e)].value.props)
         > Len(in_attrs0[e][StyleIndex(e)].value.props)

\* C4: a second run of the Injector, with the same JSXRecord and StyleRecord,
\* leaves an element with an object-literal style as the first run left it.
C4_ObjectIdempotent ==
  \A e \in AllElems :
    (in_pass = 2 /\ HadOneStyle(e, {"Object"})) => in_attrs[e] = in_attrs1[e]

\* The second run has visited an element whose object-literal style the first
\* run appended to.
C4_Witness ==
  \E e \in AllElems :
    /\ in_pass = 2 /\ e \in in_visited /\ HadOneStyle(e, {"Object"})
    /\ in_attrs1[e] # in_attrs0[e]

\* The keys an object literal's key/value entries are written with.
ObjectKeys(props) == {props[i].key : i \in {j \in DOMAIN props : props[j].kind = "KeyValue"}}

\* C5: the declarations whose property id is not a key of the object are
\* appended, in declaration order, as entries holding the declaration's CSS
\* text; the declarations whose property id is a key of the object are dropped.
C5_ObjectMerge ==
  \A e \in AllElems :
    (InjectedOnce(e) /\ HadOneStyle(e, {"Object"}) /\ BlockOf(e) # None) =>
      LET before == in_attrs0[e][StyleIndex(e)].value.props
          fresh  == SelectSeq(BlockOf(e)[1],
                              LAMBDA d : d.property_id \notin ObjectKeys(before))
      IN  in_attrs[e][StyleIndex(e)].value.props =
            before \o [i \in DOMAIN fresh |->
                         ObjProp("KeyValue", "Ident", fresh[i].property_id,
                                 "Str", fresh[i].value)]

\* The text `property-id:value;` for each declaration of a block, in order.
BlockText(block) ==
  Concat([i \in DOMAIN block |->
            block[i].property_id \o <<":">> \o block[i].value \o <<";">>])

\* C6: an element of JSXRecord whose node has a StyleRecord block, and that has
\* no style attribute, or one without a value or with an empty expression
\* container, gets the block's text as a string-literal style: appended when
\* the attribute was missing, in the place of the empty one otherwise.
C6_StyleRebuilt ==
  \A e \in AllElems :
    (InjectedOnce(e) /\ BlockOf(e) # None) =>
      LET style == AttrValue("LitStr", BlockText(BlockOf(e)[1]), <<>>)
      IN  /\ StyleIndexes(in_attrs0[e]) = {} =>
               in_attrs[e] = Append(in_attrs0[e], Attr("JSXAttr", "Ident", "style", style))
          /\ HadOneStyle(e, {"None", "EmptyExpr"}) =>
               in_attrs[e] = [in_attrs0[e] EXCEPT ![StyleIndex(e)].value = style]

\* An empty style attribute standing between two other attributes has been
\* replaced by the text of a block of two declarations.
C6_Witness ==
  \E e \in AllElems :
    /\ InjectedOnce(e) /\ BlockOf(e) # None /\ Len(BlockOf(e)[1]) = 2
    /\ HadOneStyle(e, {"EmptyExpr"}) /\ Len(in_attrs0[e]) = 3
    /\ in_attrs[e][StyleIndex(e)].value.shape = "LitStr"

OtherShapes == {"LitNum", "OtherExpr", "JSXElement", "JSXFragment"}

\* C7: an element whose style attribute is neither a string literal, an object
\* literal, an empty expression container nor without a value keeps its whole
\* attribute list.
C7_OtherShapesUntouched ==
  \A e \in AllElems : HadOneStyle(e, OtherShapes) => in_attrs[e] = in_attrs0[e]

\* An element whose style holds another expression, and whose node has a
\* block with declarations, has been visited.
C7_Witness ==
  \E e \in AllElems :
    /\ InjectedOnce(e) /\ HadOneStyle(e, {"OtherExpr"})
    /\ BlockOf(e) # None /\ BlockOf(e)[1] # <<>>

\* C8: an element whose SpanKey is not in JSXRecord is not changed, and the
\* traversal still reaches every element below it; on every element the
\* attributes not named style keep their value and position, and what is added
\* is a style attribute.
C8_OnlyStyleOfRecorded ==
  /\ \A e \in AllElems : RecordedNode(e) = None => in_attrs[e] = in_attrs0[e]
  /\ in_pc = "done" => in_visited = AllElems
  /\ \A e \in AllElems :
       /\ Len(in_attrs[e]) >= Len(in_attrs0[e])
       /\ \A i \in DOMAIN in_attrs[e] :
            \/ IsStyleAttr(in_attrs[e][i])
            \/ i \in DOMAIN in_attrs0[e] /\ in_attrs[e][i] = in_attrs0[e][i]
       /\ \A i \in DOMAIN in_attrs0[e] :
            IsStyleAttr(in_attrs0[e][i]) \/ in_attrs[e][i] = in_attrs0[e][i]

\* The pass is over: it went through an element absent from JSXRecord to an
\* element below it, to which it added a style attribute after another one.
C8_Witness ==
  /\ in_pc = "done" /\ in_pass = 1
  /\ \E e \in AllElems :
       /\ in_parent[e] # 0 /\ RecordedNode(in_parent[e]) = None
       /\ RecordedNode(e) # None
       /\ in_attrs0[e] = <<IdAttr>>
       /\ Len(in_attrs[e]) = 2

\* Element e is in JSXRecord and its node has no StyleRecord entry.
RecordedWithoutBlock(e) == RecordedNode(e) # None /\ BlockOf(e) = None

\* The style attributes of e that were written as string literals.
LiteralStyles(e) ==
  {i \in StyleIndexes(in_attrs0[e]) : in_attrs0[e][i].value.shape = "LitStr"}

\* The Injector has been at element e.
Visited(e) == e \in in_visited \/ in_pass = 2

DistinctKeys(props) ==
  \A i, j \in DOMAIN props :
    (i # j /\ props[i].kind = "KeyValue" /\ props[j].kind = "KeyValue")
      => props[i].key # props[j].key

\* C27: an object-literal style whose keys were pairwise distinct has pairwise
\* distinct keys after injection, for every StyleRecord block.
C27_KeysStayDistinct ==
  \A e \in AllElems :
    (/\ HadOneStyle(e, {"Object"})
     /\ DistinctKeys(in_attrs0[e][StyleIndex(e)].value.props))
    => DistinctKeys(in_attrs[e][StyleIndex(e)].value.props)

-----------------------------------------------------------------------------
(* The Source Tree Builder: JSXVisitor, JSXFragmentVisitor, AstVisitor      *)

\* The markup nodes of the exported component's return statement.
MaxNodes == 3
\* The calls the visitors have in progress when the native stack is used up.
MaxStack == 12

\* A node of the markup in the source unit, by what the visitors match on:
\*   kind     "JSXElement" | "JSXFragment" | "JSXExprContainer" | "JSXText"
\*   nameKind of an element: "Ident" | "JSXMemberExpr"
\*   expr     of a container: "JSXEmptyExpr" | "CallIdent" f() | "CallThis"
\*            this.f() | "Other"; name is then the callee's name
\*   place    "child": in the children of the enclosing node; "attr": the
\*            value of an attribute of the enclosing element
AstNode(kind, nameKind, name, expr, place) ==
  [kind |-> kind, nameKind |-> nameKind, name |-> name, expr |-> expr,
   place |-> place]

JsxElement(name)  == AstNode("JSXElement", "Ident", name, "", "child")
JsxFragment       == AstNode("JSXFragment", "", "", "", "child")
JsxContainer(expr, name) == AstNode("JSXExprContainer", "", name, expr, "child")

\* What a node inside the markup can be.
NodeLabels ==
  {JsxElement("view"), JsxElement("View"), JsxElement("Comp"),
   AstNode("JSXElement", "JSXMemberExpr", "Comp.Item", "", "child"),
   AstNode("JSXElement", "Ident", "view", "", "attr"),
   JsxFragment,
   JsxContainer("CallIdent", "Comp"), JsxContainer("CallThis", "meth"),
   JsxContainer("Other", ""),
   AstNode("JSXText", "", "", "", "child")}

\* What the outermost node of a return statement's markup can be.
RootLabels == {JsxElement("view"), JsxFragment}

\* The forests of n nodes numbered in source order with one outermost node.
ShapesOf(n) ==
  {parent \in [1..n -> 0..n] :
     /\ parent[1] = 0
     /\ \A k \in 2..n :
          parent[k] \in 1..(k - 1) /\ IsAncestorOrSelf(parent, parent[k], k - 1)}

\* The markup of a body with two return statements: the last node is the
\* markup of the second one.
TwoReturnShapesOf(n) ==
  {[k \in 1..n |-> IF k = n THEN 0 ELSE parent[k]] : parent \in ShapesOf(n - 1)}

\* The outermost markup nodes of a body's return statements, in order.
ReturnsOf(parent) ==
  LET roots == {k \in DOMAIN parent : parent[k] = 0}
  IN  [i \in 1..Cardinality(roots) |->
         CHOOSE k \in roots : Cardinality({j \in roots : j < k}) = i - 1]

\* Only elements and fragments have children, only elements have attributes,
\* and the attributes of an element stand before its children.
WellFormedMarkup(parent, label) ==
  \A k \in DOMAIN parent :
     parent[k] # 0 =>
       /\ label[parent[k]].kind \in {"JSXElement", "JSXFragment"}
       /\ label[k].place = "attr" =>
            /\ label[parent[k]].kind = "JSXElement"
            /\ \A j \in DOMAIN parent :
                 (parent[j] = parent[k] /\ j < k) => label[j].place = "attr"

\* A function declaration or a method of class cls of the unit: rets holds, for each
\* return statement of its body in order, the outermost markup node returned
\* (0: the statement returns no markup).
Declaration(kind, cls, name, rets) ==
  [kind |-> kind, cls |-> cls, name |-> name, rets |-> rets]

\* The declarations that stand after the exported component in the unit, with
\* their markup; the nodes are numbered from 1 within the set.
NoHelpers == [parent |-> <<>>, label |-> <<>>, decls |-> <<>>]

\* function Comp() { return <view><text/></view> }
\* class Panel { meth() { return <view/> } }
CompAndMeth ==
  [parent |-> <<0, 1, 0>>,
   label  |-> <<JsxElement("view"), JsxElement("text"), JsxElement("view")>>,
   decls  |-> <<Declaration("FnDecl", "", "Comp", <<1>>),
                Declaration("ClassMethod", "Panel", "meth", <<3>>)>>]

\* function Comp() { return <view><Comp/></view> }
SelfReference ==
  [parent |-> <<0, 1>>,
   label  |-> <<JsxElement("view"), JsxElement("Comp")>>,
   decls  |-> <<Declaration("FnDecl", "", "Comp", <<1>>)>>]

\* function Comp() { return <view/>; return <text/> }
\* function Comp() { return <image/> }
\* class Panel { meth() { return <view/> } }
\* class Other { meth() { return <text/> } }
Repeated ==
  [parent |-> <<0, 0, 0, 0, 0>>,
   label  |-> <<JsxElement("view"), JsxElement("text"), JsxElement("image"),
                JsxElement("view"), JsxElement("text")>>,
   decls  |-> <<Declaration("FnDecl", "", "Comp", <<1, 2>>),
                Declaration("FnDecl", "", "Comp", <<3>>),
                Declaration("ClassMethod", "Panel", "meth", <<4>>),
                Declaration("ClassMethod", "Other", "meth", <<5>>)>>]

HelperSets == {NoHelpers, CompAndMeth, SelfReference, Repeated}

\* The source unit: the exported component App with its return statements, then
\* the helper declarations.  export_default_name and taro_components are what
\* CollectVisitor gathered from the unit's export and import statements.
MkUnit(parent, label, helper) ==
  LET n == Len(parent)
      shift(i) == IF i = 0 THEN 0 ELSE i + n
  IN  [parent |-> parent \o [k \in DOMAIN helper.parent |-> shift(helper.parent[k])],
       label  |-> label \o helper.label,
       decls  |-> <<Declaration("FnDecl", "", "App", ReturnsOf(parent))>> \o
                  [d \in DOMAIN helper.decls |->
                     [helper.decls[d] EXCEPT
                        !.rets = [r \in DOMAIN @ |-> shift(@[r])]]],
       export_default_name |-> Some("App"),
       taro_components |-> {"View"}]

Units ==
  {MkUnit(m[1], m[2], helper) :
     m \in {x \in (ShapesOf(MaxNodes) \cup TwoReturnShapesOf(MaxNodes))
                     \X [1..MaxNodes -> NodeLabels \cup RootLabels] :
             /\ \A k \in DOMAIN x[1] : x[1][k] = 0 => x[2][k] \in RootLabels
             /\ WellFormedMarkup(x[1], x[2])},
     helper \in HelperSets}

\* The children of markup node a: the nodes of its children list, in order.
JsxChildren(unit, a) ==
  LET kids == {k \in DOMAIN unit.parent :
                 unit.parent[k] = a /\ unit.label[k].place = "child"}
  IN  [i \in 1..Cardinality(kids) |->
         CHOOSE k \in kids : Cardinality({j \in kids : j < k}) = i - 1]

\* The elements that are values of attributes of element a, in order.
JsxAttrElements(unit, a) ==
  LET kids == {k \in DOMAIN unit.parent :
                 unit.parent[k] = a /\ unit.label[k].place = "attr"}
  IN  [i \in 1..Cardinality(kids) |->
         CHOOSE k \in kids : Cardinality({j \in kids : j < k}) = i - 1]

\* utils::is_starts_with_uppercase
is_starts_with_uppercase(name) == name \in {"View", "Comp", "Comp.Item", "App"}

\* scraper::Node, by its variant and its qualified name.
Node(kind, name) == [kind |-> kind, name |-> name]

\* JSXVisitor::create_element: the node has the element's tag name.
create_element(jsx) == Node("Element", jsx.name)

\* JSXVisitor::create_fragment
create_fragment == Node("Fragment", "__Fragment__")

\* ego_tree::Tree: the sequence of its nodes, a NodeId being the index; node 1
\* is the root.  src is the markup node a tree node was created for and copied
\* tells a node made by recursion_sub_tree; neither is data of the program.
TreeNode(value, parent, src, copied) ==
  [value |-> value, parent |-> parent, children |-> <<>>, src |-> src,
   copied |-> copied]

\* Tree::new
TreeNew(value) == <<TreeNode(value, 0, 0, FALSE)>>

\* NodeMut::append: the new node is the parent's last child, its id the next.
TreeAppend(tree, p, value, src, copied) ==
  Append([tree EXCEPT ![p].children = Append(@, Len(tree) + 1)],
         TreeNode(value, p, src, copied))

RECURSIVE CopyChildren_Shallow(_, _, _, _)
\* A copy of the children kids without what is under them.
CopyChildren_Shallow(from, kids, tree, current) ==
  IF kids = <<>> THEN tree
  ELSE LET child == from[Head(kids)]
       IN  CopyChildren_Shallow(from, Tail(kids),
              TreeAppend(tree, current, child.value, child.src, TRUE), current)

\* recursion_sub_tree over the children kids of a node of the tree from.
RECURSIVE CopyChildren(_, _, _, _)
CopyChildren(from, kids, tree, current) ==
  IF kids = <<>> THEN tree
  ELSE LET child == from[Head(kids)]
           t1    == TreeAppend(tree, current, child.value, child.src, TRUE)
           t2    == CopyChildren(from, child.children, t1, Len(t1))
       IN  CopyChildren(from, Tail(kids), t2, current)

\* recursion_sub_tree that copies the node itself as well.
recursion_sub_tree_WithNode(from, node, tree, current) ==
  LET t1 == TreeAppend(tree, current, from[node].value, from[node].src, TRUE)
  IN  CopyChildren(from, from[node].children, t1, Len(t1))

\* fn recursion_sub_tree(node, current)
recursion_sub_tree(from, node, tree, current) ==
  CopyChildren(from, from[node].children, tree, current)

-----------------------------------------------------------------------------
(* The Source Tree Builder's traversal, as a state machine                  *)

\* A call in progress.  op tells whose:
\*   "AstVisitor"          module.visit_with(AstVisitor), at declaration d and
\*                         return statement r
\*   "JSXFragmentVisitor"  module.visit_with(JSXFragmentVisitor) for search_fn,
\*                         with its own tree t, at declaration d and return r
\*   "visit_with"          markup node a is about to be visited by a JSXVisitor
\*   "visit_jsx_element_children"  the JSXVisitor is at child i of list, or,
\*                         past the list, at entry j of elements
\* t, root_node and current_node are the JSXVisitor's fields.
BlankFrame ==
  [op |-> "", a |-> 0, t |-> 0, root_node |-> None, current_node |-> None,
   list |-> <<>>, i |-> 1, nodes |-> <<>>, elements |-> <<>>, j |-> 1,
   d |-> 1, r |-> 1, search_fn |-> "", search_type |-> ""]

VisitFrame(a, t, root_node, current_node) ==
  [BlankFrame EXCEPT !.op = "visit_with", !.a = a, !.t = t,
                     !.root_node = root_node, !.current_node = current_node]

ChildrenFrame(list, t, root_node, current_node) ==
  [BlankFrame EXCEPT !.op = "visit_jsx_element_children", !.list = list,
                     !.t = t, !.root_node = root_node,
                     !.current_node = current_node]

\* JSXFragmentVisitor::new; its tree is created by the action that pushes this.
SearchFrame(t, search_fn, search_type) ==
  [BlankFrame EXCEPT !.op = "JSXFragmentVisitor", !.t = t,
                     !.search_fn = search_fn, !.search_type = search_type]

Top == b_stack[Len(b_stack)]
Below == SubSeq(b_stack, 1, Len(b_stack) - 1)

Reverse(s) == [k \in 1..Len(s) |-> s[Len(s) + 1 - k]]

Running(op) ==
  /\ b_pc = "run" /\ b_stack # <<>> /\ Len(b_stack) < MaxStack
  /\ Top.op = op

InitBuild ==
  /\ LowerIdle /\ InjectIdle
  /\ b_pc = "run"
  /\ b_unit \in Units
  /\ b_trees = <<TreeNew(Node("Document", ""))>>
  /\ b_stack = <<[BlankFrame EXCEPT !.op = "AstVisitor", !.t = 1]>>
  /\ jsx_record = <<>>
  /\ b_origin = <<>>

\* The loop over the return statements of a matching declaration, shared by
\* AstVisitor and JSXFragmentVisitor: each return statement is visited by a
\* JSXVisitor::new, whose root_node and current_node are None.
VisitReturns(f, matches) ==
  LET dc == b_unit.decls[f.d]
  IN  IF matches /\ f.r <= Len(dc.rets)
      THEN Append(Below, [f EXCEPT !.r = @ + 1]) \o
           (IF dc.rets[f.r] # 0
            THEN <<VisitFrame(dc.rets[f.r], f.t, None, None)>> ELSE <<>>)
      ELSE Append(Below, [f EXCEPT !.d = @ + 1, !.r = 1])

\* AstVisitor::visit_fn_decl
AstVisitor_visit_fn_decl ==
  /\ Running("AstVisitor")
  /\ Top.d <= Len(b_unit.decls)
  /\ b_unit.decls[Top.d].kind = "FnDecl"
  /\ b_stack' = VisitReturns(Top,
        /\ b_unit.export_default_name # None
        /\ b_unit.decls[Top.d].name = b_unit.export_default_name[1])
  /\ UNCHANGED <<b_pc, b_unit, b_trees, b_origin, jsx_record>>
  /\ UNCHANGED <<lowerVars, injectVars>>

\* AstVisitor::visit_class_decl, for one method of the class
AstVisitor_visit_class_decl ==
  /\ Running("AstVisitor")
  /\ Top.d <= Len(b_unit.decls)
  /\ b_unit.decls[Top.d].kind = "ClassMethod"
  /\ b_stack' = VisitReturns(Top,
        /\ b_unit.export_default_name # None
        /\ b_unit.decls[Top.d].cls = b_unit.export_default_name[1]
        /\ b_unit.decls[Top.d].name = "render")
  /\ UNCHANGED <<b_pc, b_unit, b_trees, b_origin, jsx_record>>
  /\ UNCHANGED <<lowerVars, injectVars>>

\* module.visit_with(AstVisitor) returns: the builder has finished.
AstVisitorReturn ==
  /\ Running("AstVisitor")
  /\ Top.d > Len(b_unit.decls)
  /\ b_stack' = Below
  /\ b_pc' = "done"
  /\ UNCHANGED <<b_unit, b_trees, b_origin, jsx_record>>
  /\ UNCHANGED <<lowerVars, injectVars>>

\* The body shared by visit_jsx_element and visit_jsx_fragment, for markup
\* node a and its tree node `node`: a visitor with no root_node appends the node
\* to the root of its tree and records it; then visit_children_with goes
\* through the attributes and then the children with this same visitor.
VisitMarkup(f, node) ==
  LET create == f.root_node = None
      tree   == b_trees[f.t]
      tree1  == IF create THEN TreeAppend(tree, 1, node, f.a, FALSE) ELSE tree
      root1  == IF create THEN Some(1) ELSE f.root_node
      cur1   == IF create THEN Some(Len(tree1)) ELSE f.current_node
      key    == SpanKey(Span(b_unit.parent, f.a))
      attrs  == JsxAttrElements(b_unit, f.a)
  IN  /\ b_trees' = [b_trees EXCEPT ![f.t] = tree1]
      /\ jsx_record' = IF create THEN MapInsert(jsx_record, key, Len(tree1))
                       ELSE jsx_record
      /\ b_origin' = IF create THEN MapInsert(b_origin, key, f.t) ELSE b_origin
      /\ b_stack' = Below
                    \o <<ChildrenFrame(JsxChildren(b_unit, f.a), f.t, root1, cur1)>>
                    \o Reverse([k \in DOMAIN attrs |->
                                  VisitFrame(attrs[k], f.t, root1, cur1)])

\* JSXVisitor::visit_jsx_element
visit_jsx_element ==
  /\ Running("visit_with")
  /\ b_unit.label[Top.a].kind = "JSXElement"
  /\ VisitMarkup(Top, create_element(b_unit.label[Top.a]))
  /\ UNCHANGED <<b_pc, b_unit>>
  /\ UNCHANGED <<lowerVars, injectVars>>

\* JSXVisitor::visit_jsx_fragment
visit_jsx_fragment ==
  /\ Running("visit_with")
  /\ b_unit.label[Top.a].kind = "JSXFragment"
  /\ VisitMarkup(Top, create_fragment)
  /\ UNCHANGED <<b_pc, b_unit>>
  /\ UNCHANGED <<lowerVars, injectVars>>

\* The test of visit_jsx_element_children on a child element's name: the tag
\* refers to markup of another declaration.
IsReference(unit, label) ==
  /\ label.kind = "JSXElement"
  /\ label.nameKind = "Ident"
  /\ is_starts_with_uppercase(label.name)
  /\ label.name \notin unit.taro_components

\* The child of the first loop of visit_jsx_element_children that is next.
AtChild ==
  /\ Running("visit_jsx_element_children")
  /\ Top.i <= Len(Top.list)

ChildLabel == b_unit.label[Top.list[Top.i]]

\* The arms of the first loop that make a tree node for the child: the node is
\* appended to current_node, kept for the second loop, and recorded.
AppendChild(f, node) ==
  LET child == f.list[f.i]
      tree1 == TreeAppend(b_trees[f.t], f.current_node[1], node, child, FALSE)
      key   == SpanKey(Span(b_unit.parent, child))
  IN  IF f.current_node # None /\ f.current_node[1] \in DOMAIN b_trees[f.t]
      THEN /\ b_trees' = [b_trees EXCEPT ![f.t] = tree1]
           /\ jsx_record' = MapInsert(jsx_record, key, Len(tree1))
           /\ b_origin' = MapInsert(b_origin, key, f.t)
           /\ b_stack' = Append(Below,
                  [f EXCEPT !.i = @ + 1, !.nodes = Append(@, Len(tree1)),
                            !.elements = Append(@, child)])
      ELSE /\ b_stack' = Append(Below, [f EXCEPT !.i = @ + 1])
           /\ UNCHANGED <<b_trees, jsx_record, b_origin>>

\* visit_jsx_element_children, arm JSXElement, the name no reference
Children_JSXElement ==
  /\ AtChild
  /\ ChildLabel.kind = "JSXElement" /\ ~IsReference(b_unit, ChildLabel)
  /\ AppendChild(Top, create_element(ChildLabel))
  /\ UNCHANGED <<b_pc, b_unit>>
  /\ UNCHANGED <<lowerVars, injectVars>>

\* visit_jsx_element_children, arm JSXFragment
Children_JSXFragment ==
  /\ AtChild
  /\ ChildLabel.kind = "JSXFragment"
  /\ AppendChild(Top, create_fragment)
  /\ UNCHANGED <<b_pc, b_unit>>
  /\ UNCHANGED <<lowerVars, injectVars>>

\* A search that first gives the call site a node of its own under the
\* current node.
StartSearch_WithNode(f, search_fn, search_type) ==
  LET here == IF f.current_node # None /\ f.current_node[1] \in DOMAIN b_trees[f.t]
              THEN [b_trees EXCEPT ![f.t] =
                      TreeAppend(@, f.current_node[1], Node("Element", search_fn),
                                 f.list[f.i], FALSE)]
              ELSE b_trees
  IN  /\ b_trees' = Append(here, TreeNew(Node("Fragment", search_fn)))
      /\ b_stack' = Append(Below, [f EXCEPT !.i = @ + 1])
                    \o <<SearchFrame(Len(b_trees) + 1, search_fn, search_type)>>

\* JSXFragmentVisitor::new followed by module.visit_with(&mut visitor): the
\* visitor gets a tree of its own, whose root is a fragment named search_fn.
StartSearch(f, search_fn, search_type) ==
  /\ b_trees' = Append(b_trees, TreeNew(Node("Fragment", search_fn)))
  /\ b_stack' = Append(Below, [f EXCEPT !.i = @ + 1])
                \o <<SearchFrame(Len(b_trees) + 1, search_fn, search_type)>>

\* visit_jsx_element_children, arm JSXElement, the name a reference
Children_Reference ==
  /\ AtChild
  /\ IsReference(b_unit, ChildLabel)
  /\ StartSearch(Top, ChildLabel.name, "Normal")
  /\ UNCHANGED <<b_pc, b_unit, jsx_record, b_origin>>
  /\ UNCHANGED <<lowerVars, injectVars>>

\* visit_jsx_element_children, arm JSXExprContainer with a call f() or this.f()
Children_Call ==
  /\ AtChild
  /\ ChildLabel.kind = "JSXExprContainer"
  /\ ChildLabel.expr \in {"CallIdent", "CallThis"}
  /\ StartSearch(Top, ChildLabel.name,
                 IF ChildLabel.expr = "CallIdent" THEN "Normal" ELSE "Class")
  /\ UNCHANGED <<b_pc, b_unit, jsx_record, b_origin>>
  /\ UNCHANGED <<lowerVars, injectVars>>

\* visit_jsx_element_children, the arms that do nothing: another expression, an
\* empty container, text
Children_Other ==
  /\ AtChild
  /\ \/ ChildLabel.kind = "JSXText"
     \/ /\ ChildLabel.kind = "JSXExprContainer"
        /\ ChildLabel.expr \notin {"CallIdent", "CallThis"}
  /\ b_stack' = Append(Below, [Top EXCEPT !.i = @ + 1])
  /\ UNCHANGED <<b_pc, b_unit, b_trees, jsx_record, b_origin>>
  /\ UNCHANGED <<lowerVars, injectVars>>

\* The second loop of visit_jsx_element_children: a JSXVisitor::new with
\* current_node the child's tree node and root_node the parent visitor's.
Children_Visit ==
  /\ Running("visit_jsx_element_children")
  /\ Top.i > Len(Top.list)
  /\ Top.j <= Len(Top.elements)
  /\ b_stack' = Append(Below, [Top EXCEPT !.j = @ + 1])
                \o <<VisitFrame(Top.elements[Top.j], Top.t, Top.root_node,
                                Some(Top.nodes[Top.j]))>>
  /\ UNCHANGED <<b_pc, b_unit, b_trees, jsx_record, b_origin>>
  /\ UNCHANGED <<lowerVars, injectVars>>

\* visit_jsx_element_children returns.
Children_Return ==
  /\ Running("visit_jsx_element_children")
  /\ Top.i > Len(Top.list)
  /\ Top.j > Len(Top.elements)
  /\ b_stack' = Below
  /\ UNCHANGED <<b_pc, b_unit, b_trees, jsx_record, b_origin>>
  /\ UNCHANGED <<lowerVars, injectVars>>

\* JSXFragmentVisitor::visit_fn_decl
JSXFragmentVisitor_visit_fn_decl ==
  /\ Running("JSXFragmentVisitor")
  /\ Top.d <= Len(b_unit.decls)
  /\ b_unit.decls[Top.d].kind = "FnDecl"
  /\ b_stack' = VisitReturns(Top,
        /\ b_unit.decls[Top.d].name = Top.search_fn
        /\ Top.search_type = "Normal")
  /\ UNCHANGED <<b_pc, b_unit, b_trees, b_origin, jsx_record>>
  /\ UNCHANGED <<lowerVars, injectVars>>

\* JSXFragmentVisitor::visit_class_method
JSXFragmentVisitor_visit_class_method ==
  /\ Running("JSXFragmentVisitor")
  /\ Top.d <= Len(b_unit.decls)
  /\ b_unit.decls[Top.d].kind = "ClassMethod"
  /\ b_stack' = VisitReturns(Top,
        /\ Top.search_type = "Class"
        /\ b_unit.decls[Top.d].name = Top.search_fn)
  /\ UNCHANGED <<b_pc, b_unit, b_trees, b_origin, jsx_record>>
  /\ UNCHANGED <<lowerVars, injectVars>>

\* module.visit_with(&mut visitor) returns to visit_jsx_element_children, which
\* copies what is under the root of the visitor's tree to its current_node.
SpliceSubTree ==
  /\ Running("JSXFragmentVisitor")
  /\ Top.d > Len(b_unit.decls)
  /\ LET caller == Below[Len(Below)]
     IN  b_trees' =
           IF /\ caller.current_node # None
              /\ caller.current_node[1] \in DOMAIN b_trees[caller.t]
           THEN [b_trees EXCEPT ![caller.t] =
                   recursion_sub_tree(b_trees[Top.t], 1, @, caller.current_node[1])]
           ELSE b_trees
  /\ b_stack' = Below
  /\ UNCHANGED <<b_pc, b_unit, jsx_record, b_origin>>
  /\ UNCHANGED <<lowerVars, injectVars>>

\* The calls in progress use up the native stack: the process is aborted.
StackOverflow ==
  /\ b_pc = "run"
  /\ Len(b_stack) >= MaxStack
  /\ b_pc' = "overflow"
  /\ UNCHANGED <<b_unit, b_trees, b_stack, jsx_record, b_origin>>
  /\ UNCHANGED <<lowerVars, injectVars>>

NextBuild ==
  \/ AstVisitor_visit_fn_decl
  \/ AstVisitor_visit_class_decl
  \/ AstVisitorReturn
  \/ visit_jsx_element
  \/ visit_jsx_fragment
  \/ Children_JSXElement
  \/ Children_JSXFragment
  \/ Children_Reference
  \/ Children_Call
  \/ Children_Other
  \/ Children_Visit
  \/ Children_Return
  \/ JSXFragmentVisitor_visit_fn_decl
  \/ JSXFragmentVisitor_visit_class_method
  \/ SpliceSubTree
  \/ StackOverflow

SpecBuild == InitBuild /\ [][NextBuild]_vars

-----------------------------------------------------------------------------
(* Properties of the Source Tree Builder                                    *)

\* The Source Tree: the tree AstVisitor was handed.
SourceTree == b_trees[1]

\* The outermost markup node of the exported component's first return
\* statement.
MarkupRoot == b_unit.decls[1].rets[1]

\* The markup tree of the exported component: the elements and fragments
\* reached from the outermost one through the children lists.
RECURSIVE InMarkupTree(_)
InMarkupTree(a) ==
  /\ b_unit.label[a].kind \in {"JSXElement", "JSXFragment"}
  /\ b_unit.label[a].place = "child"
  /\ \/ a \in Range(b_unit.decls[1].rets)
     \/ b_unit.parent[a] # 0 /\ InMarkupTree(b_unit.parent[a])

MarkupTree == {a \in DOMAIN b_unit.parent : InMarkupTree(a)}

\* The outermost markup nodes of the exported component's return statements.
ComponentRoots == Range(b_unit.decls[1].rets)

\* The markup the component returns, whatever is in it.
ComponentMarkup ==
  {a \in DOMAIN b_unit.parent :
     \E r \in ComponentRoots : IsAncestorOrSelf(b_unit.parent, r, a)}

\* No cross-component reference: no uppercase non-primitive child tag and no
\* call-expression container in the component's markup.
NoCrossReference ==
  \A a \in ComponentMarkup :
     /\ ~IsReference(b_unit, b_unit.label[a])
     /\ ~(b_unit.label[a].kind = "JSXExprContainer" /\
          b_unit.label[a].expr \in {"CallIdent", "CallThis"})

\* The nodes of the Source Tree under its own root.
BuiltNodes == 2..Len(SourceTree)

\* The tree node a markup node has, given that it has exactly one.
NodeFor(a) == CHOOSE n \in BuiltNodes : SourceTree[n].src = a

\* The tree node value a markup node stands for.
NodeValueOf(a) ==
  IF b_unit.label[a].kind = "JSXFragment" THEN create_fragment
  ELSE Node("Element", b_unit.label[a].name)

\* C1: for a markup tree with no cross-component reference, when the builder
\* has finished the Source Tree has exactly one node per element or fragment
\* of the markup tree and no other, each with the tag name, the parent and the
\* place among its siblings that the element has, and JSXRecord maps the
\* SpanKey of every element to the node built from it.
C1_TreeMirrorsMarkup ==
  (b_pc = "done" /\ NoCrossReference) =>
     /\ \A a \in MarkupTree :
          Cardinality({n \in BuiltNodes : SourceTree[n].src = a}) = 1
     /\ \A n \in BuiltNodes :
          LET a == SourceTree[n].src
          IN  /\ a \in MarkupTree
              /\ SourceTree[n].value = NodeValueOf(a)
              /\ SourceTree[n].parent =
                   (IF b_unit.parent[a] = 0 THEN 1 ELSE NodeFor(b_unit.parent[a]))
              /\ \A i, j \in DOMAIN SourceTree[n].children :
                   i < j => SourceTree[SourceTree[n].children[i]].src
                            < SourceTree[SourceTree[n].children[j]].src
     /\ \A a \in MarkupTree :
          LET key == SpanKey(Span(b_unit.parent, a))
          IN  /\ key \in DOMAIN jsx_record
              /\ jsx_record[key] \in BuiltNodes
              /\ SourceTree[jsx_record[key]].src = a

\* The nodes of the Source Tree the builder created from the markup it
\* traversed, as opposed to the copies recursion_sub_tree made.
DirectNodes == {n \in BuiltNodes : ~SourceTree[n].copied}

\* The markup nodes of the declarations other than the exported component.
HelperMarkup == DOMAIN b_unit.parent \ ComponentMarkup

KeyOf(a) == SpanKey(Span(b_unit.parent, a))

\* C18: when the builder has finished, JSXRecord has for each node the builder
\* created directly the entry from the SpanKey of its markup node to it, has no
\* other entry, and has no entry keyed by the span of a markup node of a
\* function or method that is reached through a cross-reference only.
C18_RecordOnlyDirect ==
  b_pc = "done" =>
    /\ \A n \in DirectNodes :
         /\ KeyOf(SourceTree[n].src) \in DOMAIN jsx_record
         /\ jsx_record[KeyOf(SourceTree[n].src)] = n
    /\ \A key \in DOMAIN jsx_record :
         \E n \in DirectNodes : key = KeyOf(SourceTree[n].src)
    /\ \A a \in HelperMarkup : KeyOf(a) \notin DOMAIN jsx_record

\* A search for a function is in progress and a search for the same function
\* was started by it: the inner search meets what the outer one met.
SearchReentered ==
  \E i, j \in DOMAIN b_stack :
     /\ i < j
     /\ b_stack[i].op = "JSXFragmentVisitor" /\ b_stack[j].op = "JSXFragmentVisitor"
     /\ b_stack[i].search_fn = b_stack[j].search_fn
     /\ b_stack[i].search_type = b_stack[j].search_type

\* C19: the builder terminates for every unit: no search re-enters itself,
\* which would repeat without end, and the calls in progress never use up the
\* stack.
C19_Terminates == ~SearchReentered /\ b_pc # "overflow"

\* The stack is used up by a re-entered search only.
OverflowOnlyByReentry == b_pc = "overflow" => SearchReentered

\* The search of frame f names no function declaration and no class method of
\* the unit.
NamesNoDeclaration(f) ==
  /\ f.op = "JSXFragmentVisitor"
  /\ ~\E d \in DOMAIN b_unit.decls :
        /\ b_unit.decls[d].name = f.search_fn
        /\ \/ b_unit.decls[d].kind = "FnDecl" /\ f.search_type = "Normal"
           \/ b_unit.decls[d].kind = "ClassMethod" /\ f.search_type = "Class"

\* The builder is in the search for a reference that names no declaration.
UnresolvedOnTop ==
  b_pc = "run" /\ b_stack # <<>> /\ NamesNoDeclaration(Top)

\* C20: a child tag or call that names no function declaration or class
\* method of the unit. The step that starts its search adds no node and no
\* JSXRecord entry and leaves the caller at the next sibling with the nodes it
\* had; every step of the search, its return and the splice included, adds no
\* node to any tree and no JSXRecord entry and raises no fault; the search
\* ends with the caller on top again, as it was left.
C20_UnresolvedSkipped ==
  [][/\ (~UnresolvedOnTop /\ UnresolvedOnTop') =>
          /\ SubSeq(b_trees', 1, Len(b_trees)) = b_trees
          /\ Len(b_trees') = Len(b_trees) + 1
          /\ Len(b_trees'[Len(b_trees')]) = 1
          /\ jsx_record' = jsx_record
          /\ b_stack'[Len(b_stack)] = [Top EXCEPT !.i = @ + 1]
     /\ UnresolvedOnTop =>
          /\ b_pc' = "run"
          /\ b_trees' = b_trees
          /\ jsx_record' = jsx_record
          /\ \/ b_stack' = Below
             \/ /\ Len(b_stack') = Len(b_stack)
                /\ SubSeq(b_stack', 1, Len(b_stack) - 1) = Below
                /\ NamesNoDeclaration(b_stack'[Len(b_stack')])]_vars

\* <view><Comp/><view/></view> in a unit with no declaration named Comp: the
\* search was made and the Source Tree holds the two views and nothing else.
C20_Witness ==
  /\ b_pc = "done" /\ Len(b_unit.decls) = 1 /\ Len(b_trees) = 2
  /\ b_unit.parent = <<0, 1, 1>>
  /\ b_unit.label[2] = JsxElement("Comp") /\ b_unit.label[3] = JsxElement("view")
  /\ Len(SourceTree) = 3
  /\ SourceTree[3].src = 3 /\ SourceTree[3].parent = 2
  /\ SourceTree[2].children = <<3>>

\* The declarations a search for search_fn visits the return statements of.
MatchingDeclarations(search_fn, search_type) ==
  {d \in DOMAIN b_unit.decls :
     /\ b_unit.decls[d].name = search_fn
     /\ \/ b_unit.decls[d].kind = "FnDecl" /\ search_type = "Normal"
        \/ b_unit.decls[d].kind = "ClassMethod" /\ search_type = "Class"}

\* The markup of the first return statement of the first matching declaration.
FirstReturnMarkup(search_fn, search_type) ==
  LET matching == MatchingDeclarations(search_fn, search_type)
  IN  IF matching = {} THEN <<>>
      ELSE LET first == CHOOSE d \in matching : \A e \in matching : d <= e
               rets  == b_unit.decls[first].rets
           IN  IF rets = <<>> \/ rets[1] = 0 THEN <<>> ELSE <<rets[1]>>

\* The markup nodes the nodes under the root of a tree were built from.
TopLevel(tree) ==
  [i \in DOMAIN tree[1].children |-> tree[tree[1].children[i]].src]

\* A search has gone through the unit: what is under the root of its tree is
\* about to be spliced in.
SearchFinished ==
  /\ Running("JSXFragmentVisitor")
  /\ Top.d > Len(b_unit.decls)

\* C21: what a search leaves to be spliced in is the markup of the first
\* return statement of the first matching declaration and nothing else.
C21_FirstReturnOnly ==
  SearchFinished =>
    TopLevel(b_trees[Top.t]) = FirstReturnMarkup(Top.search_fn, Top.search_type)

\* The nodes of the Source Tree directly under its own root.
TopLevelNodes == Range(SourceTree[1].children)

\* C23: when the builder has finished on a component that returns markup, the
\* Source Tree has one node under its root, built from the first markup node
\* the builder met, and every other node is a descendant of it.
C23_OneTopLevelNode ==
  (b_pc = "done" /\ ComponentRoots # {}) =>
    /\ Cardinality(TopLevelNodes) = 1
    /\ \A top \in TopLevelNodes :
         /\ SourceTree[top].src = MarkupRoot
         /\ \A n \in BuiltNodes :
              IsAncestorOrSelf([k \in DOMAIN SourceTree |-> SourceTree[k].parent],
                               top, n)

\* C24: at every point of the traversal, a tree node the builder created for
\* a markup node that has a parent in the markup exists only if JSXRecord has
\* the parent's entry.
C24_ParentRecordedFirst ==
  \A t \in DOMAIN b_trees :
    \A n \in 2..Len(b_trees[t]) :
      LET a == b_trees[t][n].src
      IN  (~b_trees[t][n].copied /\ b_unit.parent[a] # 0)
            => KeyOf(b_unit.parent[a]) \in DOMAIN jsx_record

\* C25: when the builder has finished, every JSXRecord entry names a node of
\* the Source Tree, not of a search's own tree, and that node was built from
\* the markup node whose span is the entry's key.
C25_RecordNamesSourceTree ==
  b_pc = "done" =>
    \A key \in DOMAIN jsx_record :
      /\ b_origin[key] = 1
      /\ jsx_record[key] \in BuiltNodes
      /\ KeyOf(SourceTree[jsx_record[key]].src) = key

\* A child tag that visit_jsx_element_children treats as a cross-reference.
ReferenceTag(c) ==
  /\ b_unit.parent[c] # 0
  /\ b_unit.label[c].place = "child"
  /\ IsReference(b_unit, b_unit.label[c])

\* The call-site element of a cross-reference or a markup node written between
\* its tags.
InsideReference(a) ==
  \E c \in DOMAIN b_unit.parent :
    ReferenceTag(c) /\ IsAncestorOrSelf(b_unit.parent, c, a)

\* C28: the call-site element of a cross-reference and the markup nodes
\* between its tags never get a node in any tree, nor a JSXRecord entry,
\* whether the reference resolves or not.
C28_CallSiteLeavesNothing ==
  \A a \in DOMAIN b_unit.parent :
    InsideReference(a) =>
      /\ KeyOf(a) \notin DOMAIN jsx_record
      /\ \A t \in DOMAIN b_trees :
           \A n \in DOMAIN b_trees[t] : b_trees[t][n].src # a

\* <view><Comp><view/></Comp></view> with function Comp() { return
\* <view><text/></view> }: the builder has finished, and the Source Tree holds
\* App's view and under it the copies of Comp's view and text.
C28_Witness ==
  /\ b_pc = "done" /\ Len(b_unit.decls) = 3
  /\ SubSeq(b_unit.parent, 1, 3) = <<0, 1, 2>>
  /\ b_unit.label[2] = JsxElement("Comp") /\ b_unit.label[3] = JsxElement("view")
  /\ Len(SourceTree) = 4
  /\ SourceTree[2].children = <<3>> /\ SourceTree[3].children = <<4>>
  /\ SourceTree[3].copied /\ SourceTree[3].value = Node("Element", "view")
  /\ SourceTree[4].copied /\ SourceTree[4].value = Node("Element", "text")

\* The markup nodes returned by the declarations a search visits, in the
\* order of the unit.
RECURSIVE ReturnedMarkup(_, _, _)
ReturnedMarkup(search_fn, search_type, d) ==
  IF d > Len(b_unit.decls) THEN <<>>
  ELSE (IF d \in MatchingDeclarations(search_fn, search_type)
        THEN SelectSeq(b_unit.decls[d].rets, LAMBDA r : r # 0) ELSE <<>>)
       \o ReturnedMarkup(search_fn, search_type, d + 1)

\* What a child of a children list leaves under the current node: an element
\* or a fragment its own node, a reference or a call the copies of the
\* markup returned by the declarations of its name, anything else nothing.
Contribution(ch) ==
  LET label == b_unit.label[ch]
      spliced(search_type) ==
        [k \in DOMAIN ReturnedMarkup(label.name, search_type, 1) |->
           [src |-> ReturnedMarkup(label.name, search_type, 1)[k], copied |-> TRUE]]
  IN  IF IsReference(b_unit, label) THEN spliced("Normal")
      ELSE IF label.kind \in {"JSXElement", "JSXFragment"}
      THEN <<[src |-> ch, copied |-> FALSE]>>
      ELSE IF label.kind = "JSXExprContainer" /\ label.expr = "CallIdent"
      THEN spliced("Normal")
      ELSE IF label.kind = "JSXExprContainer" /\ label.expr = "CallThis"
      THEN spliced("Class")
      ELSE <<>>

\* The children of a children list that the first loop is through with: the
\* child whose search is in progress is not.
Processed(k) ==
  LET f       == b_stack[k]
      pending == IF k < Len(b_stack) /\ b_stack[k + 1].op = "JSXFragmentVisitor"
                 THEN 1 ELSE 0
  IN  SubSeq(f.list, 1, f.i - 1 - pending)

\* The last children of the current node of frame k are what the children the
\* frame is through with left, in their order.
ChildrenInPlace(k) ==
  LET f        == b_stack[k]
      tree     == b_trees[f.t]
      kids     == tree[f.current_node[1]].children
      expected == Concat([j \in DOMAIN Processed(k) |-> Contribution(Processed(k)[j])])
  IN  /\ Len(expected) <= Len(kids)
      /\ \A j \in DOMAIN expected :
           LET n == tree[kids[Len(kids) - Len(expected) + j]]
           IN  n.src = expected[j].src /\ n.copied = expected[j].copied

\* What is at and under node n of a tree.
RECURSIVE SubTree(_, _)
SubTree(tree, n) ==
  [value |-> tree[n].value, src |-> tree[n].src,
   kids  |-> [j \in DOMAIN tree[n].children |-> SubTree(tree, tree[n].children[j])]]

\* The search that has gone through the unit was started by a call in an
\* expression container.
SpliceOfCall ==
  /\ SearchFinished
  /\ LET caller == Below[Len(Below)]
     IN  /\ caller.op = "visit_jsx_element_children"
         /\ b_unit.label[caller.list[caller.i - 1]].kind = "JSXExprContainer"

\* The step from a finished search: the caller's current node gets, after the
\* children it has, copies of what is under the root of the search's tree, node
\* for node; the search's tree and the caller's other nodes stay as they are.
SpliceCopies ==
  LET caller == Below[Len(Below)]
      c      == caller.current_node[1]
      old    == b_trees[caller.t]
      new    == b_trees'[caller.t]
      temp   == b_trees[Top.t]
      added  == SubSeq(new[c].children, Len(old[c].children) + 1,
                       Len(new[c].children))
  IN  /\ b_trees'[Top.t] = temp
      /\ Len(new) = Len(old) + Len(temp) - 1
      /\ \A n \in DOMAIN old :
           new[n] = IF n = c THEN [old[n] EXCEPT !.children = @ \o added]
                    ELSE old[n]
      /\ [j \in DOMAIN added |-> SubTree(new, added[j])]
           = [j \in DOMAIN temp[1].children |-> SubTree(temp, temp[1].children[j])]
      /\ \A n \in (Len(old) + 1)..Len(new) : new[n].copied

\* C22: a call f() in a child expression container starts the search for the
\* function declarations named f and a call this.m() the search for the class
\* methods named m; what the search found is copied node for node under the
\* current node, and the copies stand among the current node's children where
\* the container stands among its siblings.
C22_CallSplicesCopy ==
  /\ [](\A k \in DOMAIN b_stack :
          (b_stack[k].op = "visit_jsx_element_children"
             /\ b_stack[k].current_node # None) => ChildrenInPlace(k))
  /\ [][SpliceOfCall => SpliceCopies]_vars

\* <view>{Comp()}<view/></view> with function Comp() { return
\* <view><text/></view> }: the builder has finished; under App's view stand the
\* copy of Comp's view, with the copy of text under it, and then the view
\* written after the container.
C22_Witness ==
  /\ b_pc = "done" /\ Len(b_unit.decls) = 3
  /\ SubSeq(b_unit.parent, 1, 3) = <<0, 1, 1>>
  /\ b_unit.label[2] = JsxContainer("CallIdent", "Comp")
  /\ b_unit.label[3] = JsxElement("view")
  /\ SourceTree[2].children = <<3, 5>>
  /\ SourceTree[3].copied /\ SourceTree[3].src = 4 /\ SourceTree[3].children = <<4>>
  /\ SourceTree[4].copied /\ SourceTree[4].value = Node("Element", "text")
  /\ ~SourceTree[5].copied /\ SourceTree[5].src = 3

====
